---- MODULE Spec2Model ----
(***************************************************************************)
(* The durable work queue of the GLaDOS voice generator                    *)
(* (voice-generator/worker/processor.py): the audio_entries table in an    *)
(* SQLite database in WAL mode, the three statements the worker runs on    *)
(* it (claim, mark_success, mark_error) and the worker's main loop, run by *)
(* several worker processes, each on a connection of its own.              *)
(*                                                                         *)
(* SQLite in WAL mode has one writer at a time.  Python's sqlite3 module    *)
(* opens a transaction implicitly before an UPDATE and keeps it open until *)
(* commit(), rollback() or the close of the connection; the UPDATE takes    *)
(* the write lock whether or not it changes a row.  Readers see the         *)
(* committed table.                                                         *)
(***************************************************************************)
EXTENDS Integers, Sequences, FiniteSets, TLC

\* ---------------------------------------------------------------- bounds
NumWorkers == 2          \* worker processes of the main specification
RaceWorkers == 5         \* claimants of the claim race
LiveWorkers == 4         \* workers of the progress specification
NumConns == 1            \* client connections of the web server
MaxMsgs == 2             \* messages the clients send in one run
OwnWorkers == 1           \* workers of the quiet run
GatewayConns == 2        \* connections of the event-loop specification
GatewayMsgs == 1         \* prompts each of its clients sends
MaxJobs == 2             \* rows ever inserted
MaxClock == 1            \* seconds datetime('now') can advance
MaxCalls == 4            \* direct calls of the store functions in one run

\* ------------------------------------------------------ program constants
ERROR_MESSAGE_CAP == 500 \* str(error_message)[:500]
POLL_INTERVAL == 2       \* seconds between database polls
BUSY_TIMEOUT == 5000     \* PRAGMA busy_timeout, in milliseconds
SAMPLE_RATE == 22050

\* ---------------------------------------------------------------- values
NULL == <<>>
Some(v) == <<v>>
Val(o) == o[1]

Min(a, b) == IF a <= b THEN a ELSE b

\* A string of n characters; the character at position i is i % 7, so that
\* a prefix differs from every other slice of the same length.
Str(n) == [i \in 1..n |-> i % 7]

Texts == {"Hello", ""}
\* the text of the rows the clients of the worker processes insert
QueuedTexts == {"Hello"}
\* str(e) of an exception raised by process_entry
FailureDescriptions == {Str(3), Str(ERROR_MESSAGE_CAP + 1)}
\* str(e) of sqlite3.OperationalError
StoreErrorMessage == Str(18)
\* frames of the generated audio
AudioFrames == {0, 33075}
\* arguments a caller of the store functions may pass
ApiResults == {[audio_path |-> <<"out.raw">>, duration_ms |-> 1500],
               [audio_path |-> <<"audio", 1, ".wav">>, duration_ms |-> 0]}
ApiMessages == {Str(0), Str(ERROR_MESSAGE_CAP), Str(10 * ERROR_MESSAGE_CAP)}

VARIABLES
    jobs,          \* the committed audio_entries table: row id -> row
    clock,         \* datetime('now'), in seconds
    writer,        \* the connection holding the write lock, 0 if none
    uncommitted,   \* the table as the writer's open transaction sees it
    pc,            \* each worker's position in main()
    row,           \* claim_pending_entry: the row fetched by the SELECT
    entry,         \* main: the entry claim_pending_entry returned
    audio,         \* process_entry: the samples generate_tts returned
    result,        \* main: (audio_path, duration_ms) of process_entry
    exc,           \* main: str(e) of the exception caught for the entry
    files,         \* audio files written under AUDIO_OUTPUT_DIR
    waited,        \* poll-interval sleeps a blocked writer has waited through
    claimReturns,  \* history: how many claim calls returned each job id
    synthCalls,    \* history: how many times generate_tts ran for each job id
    lastCall       \* history: the last direct call of a store function

\* The web server (src/web/server.py), one websocket_handler per connection.
VARIABLES
    ws,            \* each connection as the server sees it: open, lost, closed
    inbox,         \* inbound messages the handler has not received yet
    handler,       \* each websocket_handler's position and local variables
    delivered,     \* history: the frames delivered to each client
    pool,          \* the collaborator call each handler has on the executor
    calls,         \* history: the collaborator calls made for each connection
    written        \* audio files written under AUDIO_DIR, by request

wsVars == <<ws, inbox, handler, delivered, pool, calls, written>>

vars == <<jobs, clock, writer, uncommitted, pc, row, entry, audio, result, exc,
          files, waited, claimReturns, synthCalls, lastCall, wsVars>>

Workers == DOMAIN pc
Ids == 1..MaxJobs

NoCall == [op |-> "none", n |-> 0]

\* ------------------------------------------------- the web server, values
Conns == DOMAIN ws

\* Python truthiness of None, "" and a non-empty value.
Truthy(v) == v # NULL /\ v # Some("")

\* A JSON number where a string is expected.
JsonNumber == <<"5", "number">>
IsStr(v) == v # NULL /\ Len(v) = 1

\* A text as json.loads sees it: whether it parses, whether the value is an
\* object, the members of the object, and the text itself.
JsonText(raw, keys, p, sid, res) ==
    [parses |-> TRUE, object |-> TRUE, keys |-> keys, prompt |-> p,
     session_id |-> sid, result |-> res, raw |-> raw]
JsonArray ==
    [parses |-> TRUE, object |-> FALSE, keys |-> {}, prompt |-> NULL,
     session_id |-> NULL, result |-> NULL, raw |-> "[]"]
PlainText(raw) ==
    [parses |-> FALSE, object |-> FALSE, keys |-> {}, prompt |-> NULL,
     session_id |-> NULL, result |-> NULL, raw |-> raw]

\* data.get(key, default)
Get(data, key, default) == IF key \in data.keys THEN data[key] ELSE default

\* str.strip() of the texts of the model
Strip(raw) == IF raw \in {"", " "} THEN "" ELSE raw

\* The data of the TEXT messages a client sends.
InboundData ==
    {PlainText("not json"),
     JsonArray,
     JsonText("{}", {}, NULL, NULL, NULL),
     JsonText("{prompt:''}", {"prompt"}, Some(""), NULL, NULL),
     JsonText("{prompt:5}", {"prompt"}, JsonNumber, NULL, NULL),
     JsonText("{prompt:'hi'}", {"prompt"}, Some("hi"), NULL, NULL),
     JsonText("{prompt:'hi',session_id:'s1'}", {"prompt", "session_id"},
              Some("hi"), Some("s1"), NULL)}

Inbound == [type : {"TEXT"}, data : InboundData]
               \cup {[type |-> "BINARY", data |-> PlainText("")]}

\* What subprocess.run(cmd) gives: the stdout and stderr of the claude
\* process, or no process at all (the executable is missing).
Completed(stdout, stderr) == [started |-> TRUE, stdout |-> stdout, stderr |-> stderr]
NotStarted == [started |-> FALSE, stdout |-> PlainText(""), stderr |-> ""]

ResponderOutputs ==
    {Completed(JsonText("{result:'Hi',session_id:'s1'}", {"result", "session_id"},
                        NULL, Some("s1"), Some("Hi")), ""),
     Completed(JsonText("{result:'Hi',session_id:'s2'}", {"result", "session_id"},
                        NULL, Some("s2"), Some("Hi")), ""),
     Completed(JsonText("{result:'',session_id:'s2'}", {"result", "session_id"},
                        NULL, Some("s2"), Some("")), ""),
     Completed(JsonText("{result:null,session_id:'s1'}", {"result", "session_id"},
                        NULL, Some("s1"), NULL), ""),
     Completed(JsonText("{result:'Hi'}", {"result"}, NULL, NULL, Some("Hi")), ""),
     Completed(JsonText("{session_id:'s1'}", {"session_id"}, NULL, Some("s1"), NULL), ""),
     Completed(JsonArray, ""),
     Completed(PlainText("Sarcasm."), ""),
     Completed(PlainText(" "), "boom"),
     Completed(PlainText(""), "boom"),
     NotStarted}

\* SPINNER_MESSAGES: two of the four thinking messages and two of the five
\* generating messages random.choice picks from.
SPINNER_MESSAGES ==
    [thinking |-> {"Aperture Science Testing Protocol...",
                   "Consulting the mainframe..."},
     generating |-> {"Synthesizing vocal patterns...",
                     "The cake is being prepared..."}]

\* websocket_handler before its first message.
NoMessage == [type |-> "NONE", data |-> PlainText("")]

NewHandler ==
    [pc |-> "receive", n |-> 0, msg |-> NoMessage, prompt |-> NULL, session_id |-> NULL,
     text |-> NULL, new_session_id |-> NULL, message |-> "", unexpected |-> FALSE]

\* ------------------------------------------------------------ the table
NewJob(t, now) ==
    [text |-> t, status |-> "pending", created_at |-> now,
     started_at |-> NULL, completed_at |-> NULL, audio_path |-> NULL,
     duration_ms |-> NULL, error_message |-> NULL]

Pending(table) == {i \in DOMAIN table : table[i].status = "pending"}

\* (mutant) the SELECT without its ORDER BY
SelectAnyPending(table) == Pending(table)

\* SELECT id, text FROM audio_entries WHERE status = 'pending'
\* ORDER BY created_at ASC LIMIT 1: the rows the statement may return.
\* The ORDER BY names created_at only, so among the pending rows of the
\* smallest created_at the row returned is not determined by the statement.
SelectOldestPending(table) ==
    {i \in Pending(table) :
        \A k \in Pending(table) : table[i].created_at <= table[k].created_at}

\* (mutant) the WHERE clause without its status guard
ClaimMatchesAnyStatus(table, id) == {i \in DOMAIN table : i = id}

\* UPDATE ... SET status = 'processing', started_at = datetime('now')
\* WHERE id = ? AND status = 'pending': the rows the WHERE clause matches
\* (cursor.rowcount is their number) and the table after the statement.
ClaimMatches(table, id) ==
    {i \in DOMAIN table : i = id /\ table[i].status = "pending"}

\* (mutant) the claim's UPDATE without started_at in its SET list
ClaimUpdateNoStartedAt(table, id, now) ==
    [i \in DOMAIN table |->
        IF i \in ClaimMatches(table, id)
        THEN [table[i] EXCEPT !.status = "processing"]
        ELSE table[i]]

ClaimUpdate(table, id, now) ==
    [i \in DOMAIN table |->
        IF i \in ClaimMatches(table, id)
        THEN [table[i] EXCEPT !.status = "processing", !.started_at = Some(now)]
        ELSE table[i]]

\* (mutant) mark_success without the duration_ms column
SuccessUpdateNoDuration(table, id, path, dur, now) ==
    [i \in DOMAIN table |->
        IF i = id
        THEN [table[i] EXCEPT !.status = "success", !.audio_path = Some(path),
                              !.completed_at = Some(now)]
        ELSE table[i]]

\* UPDATE ... SET status = 'success', audio_path = ?, duration_ms = ?,
\* completed_at = datetime('now') WHERE id = ?
SuccessUpdate(table, id, path, dur, now) ==
    [i \in DOMAIN table |->
        IF i = id
        THEN [table[i] EXCEPT !.status = "success", !.audio_path = Some(path),
                              !.duration_ms = Some(dur), !.completed_at = Some(now)]
        ELSE table[i]]

\* (mutant) the message stored whole
TruncateNone(msg) == msg

\* str(error_message)[:500]
Truncate(msg) == SubSeq(msg, 1, Min(Len(msg), ERROR_MESSAGE_CAP))

\* (mutant) mark_error without status = 'error' in its SET list
ErrorUpdateKeepsStatus(table, id, msg, now) ==
    [i \in DOMAIN table |->
        IF i = id
        THEN [table[i] EXCEPT !.error_message = Some(Truncate(msg)),
                              !.completed_at = Some(now)]
        ELSE table[i]]

\* (mutant) mark_error that puts the failed row back into the queue
ErrorUpdateRetries(table, id, msg, now) ==
    [i \in DOMAIN table |->
        IF i = id
        THEN [table[i] EXCEPT !.status = "pending", !.error_message = Some(Truncate(msg)),
                              !.completed_at = Some(now)]
        ELSE table[i]]

\* (mutant) mark_error without its WHERE clause
ErrorUpdateEveryRow(table, id, msg, now) ==
    [i \in DOMAIN table |->
        [table[i] EXCEPT !.status = "error", !.error_message = Some(msg),
                         !.completed_at = Some(now)]]

\* UPDATE ... SET status = 'error', error_message = ?,
\* completed_at = datetime('now') WHERE id = ?
ErrorUpdate(table, id, msg, now) ==
    [i \in DOMAIN table |->
        IF i = id
        THEN [table[i] EXCEPT !.status = "error", !.error_message = Some(Truncate(msg)),
                              !.completed_at = Some(now)]
        ELSE table[i]]

\* (mutant) one file name for every entry
AudioPathFixedName(id) == <<"audio", 0, ".wav">>

\* f"audio/{audio_filename}" with audio_filename = f"{entry_id}.wav"
AudioPath(id) == <<"audio", id, ".wav">>

\* AUDIO_OUTPUT_DIR / audio_filename, from the voice-generator directory:
\* the file write_wav writes
OutputFile(id) == <<"public", "audio", id, ".wav">>

\* A path of the table is relative to the public folder.
FromPublic(path) == <<"public">> \o path

\* int((frames / rate) * 1000)
DurationMs(frames) == (frames * 1000) \div SAMPLE_RATE

\* ------------------------------------------------------------ the store
\* The table a connection reads: its own open transaction, else the
\* committed rows.
View(w) == IF writer = w THEN uncommitted ELSE jobs

\* The end of w's connection (conn.close(), the connection object dropped,
\* the process gone) rolls its open transaction back and frees the lock.
ReleaseWriter(w) == IF writer = w THEN 0 ELSE writer
ReleaseUncommitted(w) == IF writer = w THEN <<>> ELSE uncommitted

\* Workers whose write statement is waiting for the lock w holds.
BlockedOn(w) ==
    {v \in Workers : v # w /\ writer = w /\ pc[v] \in {"update", "mark_success", "mark_error"}}

\* w slept one poll interval: every writer blocked on its lock waited as long.
SleptHolding(w) ==
    [v \in Workers |->
        IF v \in BlockedOn(w) /\ waited[v] * POLL_INTERVAL * 1000 < BUSY_TIMEOUT
        THEN waited[v] + 1
        ELSE waited[v]]

\* The busy handler gives up when the wait reaches busy_timeout: a writer
\* that waited n poll intervals behind sleeping lock holders is timed out
\* during the next holder's sleep if that sleep ends past the timeout.
TimedOut(w) ==
    /\ writer \notin {0, w}
    /\ pc[writer] \in {"idle_sleep", "backoff"}
    /\ (waited[w] + 1) * POLL_INTERVAL * 1000 > BUSY_TIMEOUT

\* ------------------------------------------------------- the worker loop
\* (mutant) a worker that puts the rows left in processing back to pending
\* when it opens its connection
ConnectRequeues(w) ==
    /\ pc[w] = "connect"
    /\ pc' = [pc EXCEPT ![w] = "select"]
    /\ writer = 0
    /\ jobs' = [i \in DOMAIN jobs |->
                    IF jobs[i].status = "processing" /\ \A v \in Workers : entry[v] # Some([id |-> i, text |-> jobs[i].text])
                    THEN [jobs[i] EXCEPT !.status = "pending"]
                    ELSE jobs[i]]
    /\ UNCHANGED <<writer, uncommitted>>
    /\ waited' = [waited EXCEPT ![w] = 0]
    /\ row' = [row EXCEPT ![w] = NULL]
    /\ entry' = [entry EXCEPT ![w] = NULL]
    /\ audio' = [audio EXCEPT ![w] = NULL]
    /\ result' = [result EXCEPT ![w] = NULL]
    /\ exc' = [exc EXCEPT ![w] = NULL]
    /\ UNCHANGED <<wsVars, clock, files, claimReturns, synthCalls, lastCall>>

\* conn = get_db_connection(): the name is rebound, so the connection of
\* an iteration that ended in the outer except clause is dropped here.
Connect(w) ==
    /\ pc[w] = "connect"
    /\ pc' = [pc EXCEPT ![w] = "select"]
    /\ writer' = ReleaseWriter(w)
    /\ uncommitted' = ReleaseUncommitted(w)
    /\ waited' = [waited EXCEPT ![w] = 0]
    /\ row' = [row EXCEPT ![w] = NULL]
    /\ entry' = [entry EXCEPT ![w] = NULL]
    /\ audio' = [audio EXCEPT ![w] = NULL]
    /\ result' = [result EXCEPT ![w] = NULL]
    /\ exc' = [exc EXCEPT ![w] = NULL]
    /\ UNCHANGED <<wsVars, jobs, clock, files, claimReturns, synthCalls, lastCall>>

\* claim_pending_entry: the SELECT and fetchone(); None when no row.
Select(w) ==
    /\ pc[w] = "select"
    /\ IF SelectOldestPending(View(w)) = {}
       THEN /\ row' = [row EXCEPT ![w] = NULL]
            /\ pc' = [pc EXCEPT ![w] = "idle_sleep"]
       ELSE \E id \in SelectOldestPending(View(w)) :
            /\ row' = [row EXCEPT ![w] = Some([id |-> id, text |-> View(w)[id].text])]
            /\ pc' = [pc EXCEPT ![w] = "update"]
    /\ UNCHANGED <<wsVars, jobs, clock, writer, uncommitted, entry, audio, result, exc,
                   files, waited, claimReturns, synthCalls, lastCall>>

\* (mutant) a lost race raises instead of returning None
UpdateRaisesOnConflict(w) ==
    /\ pc[w] = "update"
    /\ writer = 0
    /\ writer' = w
    /\ uncommitted' = ClaimUpdate(jobs, Val(row[w]).id, clock)
    /\ waited' = [waited EXCEPT ![w] = 0]
    /\ IF ClaimMatches(jobs, Val(row[w]).id) = {}
       THEN /\ pc' = [pc EXCEPT ![w] = "backoff"]
            /\ row' = [row EXCEPT ![w] = NULL]
       ELSE /\ pc' = [pc EXCEPT ![w] = "claim_commit"]
            /\ row' = row
    /\ UNCHANGED <<wsVars, jobs, clock, entry, audio, result, exc, files,
                   claimReturns, synthCalls, lastCall>>

\* (mutant) a claim that selects again when its UPDATE changed no row
UpdateSelectsAgain(w) ==
    /\ pc[w] = "update"
    /\ writer = 0
    /\ writer' = w
    /\ uncommitted' = ClaimUpdate(jobs, Val(row[w]).id, clock)
    /\ waited' = [waited EXCEPT ![w] = 0]
    /\ IF ClaimMatches(jobs, Val(row[w]).id) = {}
       THEN /\ pc' = [pc EXCEPT ![w] = "select"]
            /\ row' = [row EXCEPT ![w] = NULL]
       ELSE /\ pc' = [pc EXCEPT ![w] = "claim_commit"]
            /\ row' = row
    /\ UNCHANGED <<wsVars, jobs, clock, entry, audio, result, exc, files,
                   claimReturns, synthCalls, lastCall>>

\* claim_pending_entry: the conditional UPDATE; rowcount == 0 returns None
\* with the transaction the UPDATE opened still open.
Update(w) ==
    /\ pc[w] = "update"
    /\ writer = 0
    /\ writer' = w
    /\ uncommitted' = ClaimUpdate(jobs, Val(row[w]).id, clock)
    /\ waited' = [waited EXCEPT ![w] = 0]
    /\ IF ClaimMatches(jobs, Val(row[w]).id) = {}
       THEN /\ pc' = [pc EXCEPT ![w] = "idle_sleep"]
            /\ row' = [row EXCEPT ![w] = NULL]
       ELSE /\ pc' = [pc EXCEPT ![w] = "claim_commit"]
            /\ row' = row
    /\ UNCHANGED <<wsVars, jobs, clock, entry, audio, result, exc, files,
                   claimReturns, synthCalls, lastCall>>

\* claim_pending_entry: conn.commit() and the return of the entry.
ClaimCommit(w) ==
    /\ pc[w] = "claim_commit"
    /\ writer = w
    /\ jobs' = uncommitted
    /\ writer' = 0
    /\ uncommitted' = <<>>
    /\ entry' = [entry EXCEPT ![w] = Some([id |-> Val(row[w]).id, text |-> Val(row[w]).text])]
    /\ claimReturns' = [claimReturns EXCEPT ![Val(row[w]).id] = @ + 1]
    /\ row' = [row EXCEPT ![w] = NULL]
    /\ pc' = [pc EXCEPT ![w] = "generate_tts"]
    /\ UNCHANGED <<wsVars, clock, audio, result, exc, files, waited, synthCalls, lastCall>>

\* process_entry: audio = generate_tts(text)
GenerateTts(w) ==
    /\ pc[w] = "generate_tts"
    /\ \E f \in AudioFrames : audio' = [audio EXCEPT ![w] = Some(f)]
    /\ synthCalls' = [synthCalls EXCEPT ![Val(entry[w]).id] = @ + 1]
    /\ pc' = [pc EXCEPT ![w] = "write_wav"]
    /\ UNCHANGED <<wsVars, jobs, clock, writer, uncommitted, row, entry, result, exc,
                   files, waited, claimReturns, lastCall>>

\* (mutant) process_entry that returns the path without writing the file
WriteWavSkipped(w) ==
    /\ pc[w] = "write_wav"
    /\ pc' = [pc EXCEPT ![w] = "get_duration"]
    /\ UNCHANGED <<wsVars, jobs, clock, writer, uncommitted, row, entry, audio, result,
                   exc, files, waited, claimReturns, synthCalls, lastCall>>

\* process_entry: write_wav(str(audio_path), SAMPLE_RATE, audio)
WriteWav(w) ==
    /\ pc[w] = "write_wav"
    /\ files' = files \cup {OutputFile(Val(entry[w]).id)}
    /\ pc' = [pc EXCEPT ![w] = "get_duration"]
    /\ UNCHANGED <<wsVars, jobs, clock, writer, uncommitted, row, entry, audio, result,
                   exc, waited, claimReturns, synthCalls, lastCall>>

\* process_entry: duration_ms = get_audio_duration_ms(audio_path); return
GetDuration(w) ==
    /\ pc[w] = "get_duration"
    /\ result' = [result EXCEPT ![w] =
                    Some([audio_path |-> AudioPath(Val(entry[w]).id),
                          duration_ms |-> DurationMs(Val(audio[w]))])]
    /\ audio' = [audio EXCEPT ![w] = NULL]
    /\ pc' = [pc EXCEPT ![w] = "mark_success"]
    /\ UNCHANGED <<wsVars, jobs, clock, writer, uncommitted, row, entry, exc,
                   files, waited, claimReturns, synthCalls, lastCall>>

\* (mutant) main without the inner except clause's mark_error: a failed
\* process_entry leaves the row as it is and the iteration ends
ProcessFailUnrecorded(w) ==
    /\ pc[w] \in {"generate_tts", "write_wav", "get_duration"}
    /\ \E d \in FailureDescriptions : exc' = [exc EXCEPT ![w] = Some(d)]
    /\ audio' = [audio EXCEPT ![w] = NULL]
    /\ synthCalls' = [synthCalls EXCEPT ![Val(entry[w]).id] =
                          IF pc[w] = "generate_tts" THEN @ + 1 ELSE @]
    /\ pc' = [pc EXCEPT ![w] = "close"]
    /\ UNCHANGED <<wsVars, jobs, clock, writer, uncommitted, row, entry, result,
                   files, waited, claimReturns, lastCall>>

\* process_entry raises an Exception (the synthesizer, write_wav or the
\* duration read): main's inner except clause takes str(e).
ProcessFail(w) ==
    /\ pc[w] \in {"generate_tts", "write_wav", "get_duration"}
    /\ \E d \in FailureDescriptions : exc' = [exc EXCEPT ![w] = Some(d)]
    /\ audio' = [audio EXCEPT ![w] = NULL]
    /\ synthCalls' = [synthCalls EXCEPT ![Val(entry[w]).id] =
                          IF pc[w] = "generate_tts" THEN @ + 1 ELSE @]
    /\ pc' = [pc EXCEPT ![w] = "mark_error"]
    /\ UNCHANGED <<wsVars, jobs, clock, writer, uncommitted, row, entry, result,
                   files, waited, claimReturns, lastCall>>

\* mark_success: the UPDATE
MarkSuccess(w) ==
    /\ pc[w] = "mark_success"
    /\ writer = 0
    /\ writer' = w
    /\ uncommitted' = SuccessUpdate(jobs, Val(entry[w]).id, Val(result[w]).audio_path,
                                    Val(result[w]).duration_ms, clock)
    /\ waited' = [waited EXCEPT ![w] = 0]
    /\ pc' = [pc EXCEPT ![w] = "success_commit"]
    /\ UNCHANGED <<wsVars, jobs, clock, row, entry, audio, result, exc, files,
                   claimReturns, synthCalls, lastCall>>

\* (mutant) main with its sleep after the if, not in its else branch
SuccessCommitThenSleep(w) ==
    /\ pc[w] = "success_commit"
    /\ writer = w
    /\ jobs' = uncommitted
    /\ writer' = 0
    /\ uncommitted' = <<>>
    /\ pc' = [pc EXCEPT ![w] = "idle_sleep"]
    /\ UNCHANGED <<wsVars, clock, row, entry, audio, result, exc, files, waited,
                   claimReturns, synthCalls, lastCall>>

\* mark_success: conn.commit()
SuccessCommit(w) ==
    /\ pc[w] = "success_commit"
    /\ writer = w
    /\ jobs' = uncommitted
    /\ writer' = 0
    /\ uncommitted' = <<>>
    /\ pc' = [pc EXCEPT ![w] = "close"]
    /\ UNCHANGED <<wsVars, clock, row, entry, audio, result, exc, files, waited,
                   claimReturns, synthCalls, lastCall>>

\* mark_error: the UPDATE
MarkError(w) ==
    /\ pc[w] = "mark_error"
    /\ writer \in {0, w}
    /\ writer' = w
    /\ uncommitted' = ErrorUpdate(View(w), Val(entry[w]).id, Val(exc[w]), clock)
    /\ waited' = [waited EXCEPT ![w] = 0]
    /\ pc' = [pc EXCEPT ![w] = "error_commit"]
    /\ UNCHANGED <<wsVars, jobs, clock, row, entry, audio, result, exc, files,
                   claimReturns, synthCalls, lastCall>>

\* mark_error: conn.commit()
ErrorCommit(w) ==
    /\ pc[w] = "error_commit"
    /\ writer = w
    /\ jobs' = uncommitted
    /\ writer' = 0
    /\ uncommitted' = <<>>
    /\ exc' = [exc EXCEPT ![w] = NULL]
    /\ pc' = [pc EXCEPT ![w] = "close"]
    /\ UNCHANGED <<wsVars, clock, row, entry, audio, result, files, waited,
                   claimReturns, synthCalls, lastCall>>

\* main: no entry, time.sleep(POLL_INTERVAL)
IdleSleep(w) ==
    /\ pc[w] = "idle_sleep"
    /\ waited' = SleptHolding(w)
    /\ pc' = [pc EXCEPT ![w] = "close"]
    /\ UNCHANGED <<wsVars, jobs, clock, writer, uncommitted, row, entry, audio, result,
                   exc, files, claimReturns, synthCalls, lastCall>>

\* main: conn.close()
Close(w) ==
    /\ pc[w] = "close"
    /\ writer' = ReleaseWriter(w)
    /\ uncommitted' = ReleaseUncommitted(w)
    /\ pc' = [pc EXCEPT ![w] = "connect"]
    /\ UNCHANGED <<wsVars, jobs, clock, row, entry, audio, result, exc, files, waited,
                   claimReturns, synthCalls, lastCall>>

\* main: except Exception: log, time.sleep(POLL_INTERVAL)
Backoff(w) ==
    /\ pc[w] = "backoff"
    /\ waited' = SleptHolding(w)
    /\ pc' = [pc EXCEPT ![w] = "connect"]
    /\ UNCHANGED <<wsVars, jobs, clock, writer, uncommitted, row, entry, audio, result,
                   exc, files, claimReturns, synthCalls, lastCall>>

\* ------------------------------------------------------------- failures
\* (mutant) main with get_db_connection() called outside its try: a failure
\* to open the store leaves the loop
RaiseTargetConnectUncaught(p) ==
    IF p \in {"mark_success", "success_commit"} THEN "mark_error"
    ELSE IF p = "connect" THEN "stopped" ELSE "backoff"

\* (mutant) main with mark_success after its inner try: a failure of
\* mark_success goes to the outer except clause
RaiseTargetSuccessOutsideTry(p) == "backoff"

\* Where an exception raised by a store call lands in main: one raised by
\* mark_success is caught by the inner except clause, which calls
\* mark_error; every other one by the outer except clause.
RaiseTarget(p) ==
    IF p \in {"mark_success", "success_commit"} THEN "mark_error" ELSE "backoff"

\* A store call of w raises sqlite3.Error.  keep: the connection's open
\* transaction survives the failed call (it is rolled back otherwise).
Raise(w, keep) ==
    /\ pc' = [pc EXCEPT ![w] = RaiseTarget(pc[w])]
    /\ exc' = [exc EXCEPT ![w] = IF RaiseTarget(pc[w]) = "mark_error"
                                 THEN Some(StoreErrorMessage)
                                 ELSE NULL]
    /\ row' = [row EXCEPT ![w] = NULL]
    /\ writer' = IF keep THEN writer ELSE ReleaseWriter(w)
    /\ uncommitted' = IF keep THEN uncommitted ELSE ReleaseUncommitted(w)
    /\ waited' = [waited EXCEPT ![w] = 0]
    /\ UNCHANGED <<wsVars, jobs, clock, entry, audio, result, files, claimReturns, synthCalls, lastCall>>

\* The store is unavailable (disk full, I/O error) in any call main makes
\* on it.  SQLite rolls the transaction back when a COMMIT fails in WAL
\* mode, so the changes of the statement before it are gone.
StoreFault(w) ==
    /\ pc[w] \in {"connect", "select", "update", "claim_commit", "mark_success",
                  "success_commit", "mark_error", "error_commit"}
    /\ Raise(w, FALSE)

\* busy_timeout expires for a write statement waiting behind connections
\* that hold the write lock while their workers sleep:
\* sqlite3.OperationalError, database is locked.
LockTimeout(w) ==
    /\ pc[w] \in {"update", "mark_success", "mark_error"}
    /\ TimedOut(w)
    /\ Raise(w, TRUE)

\* KeyboardInterrupt (or the death of the process) at any point: the loop is
\* left and the connection goes with the process.
Interrupt(w) ==
    /\ pc[w] # "stopped"
    /\ pc' = [pc EXCEPT ![w] = "stopped"]
    /\ writer' = ReleaseWriter(w)
    /\ uncommitted' = ReleaseUncommitted(w)
    /\ row' = [row EXCEPT ![w] = NULL]
    /\ entry' = [entry EXCEPT ![w] = NULL]
    /\ audio' = [audio EXCEPT ![w] = NULL]
    /\ result' = [result EXCEPT ![w] = NULL]
    /\ exc' = [exc EXCEPT ![w] = NULL]
    /\ waited' = [waited EXCEPT ![w] = 0]
    /\ UNCHANGED <<wsVars, jobs, clock, files, claimReturns, synthCalls, lastCall>>

\* ---------------------------------------------------------- environment
\* enqueue(text): a client inserts a row with status pending and
\* created_at = now; ids are assigned in increasing order.
Enqueue(t) ==
    /\ Len(jobs) < MaxJobs
    /\ writer = 0
    /\ jobs' = Append(jobs, NewJob(t, clock))
    /\ UNCHANGED <<wsVars, clock, writer, uncommitted, pc, row, entry, audio, result, exc,
                   files, waited, claimReturns, synthCalls, lastCall>>

\* datetime('now') moves on.
Tick ==
    /\ clock < MaxClock
    /\ clock' = clock + 1
    /\ UNCHANGED <<wsVars, jobs, writer, uncommitted, pc, row, entry, audio, result, exc,
                   files, waited, claimReturns, synthCalls, lastCall>>

\* ------------------------------------- the store functions called directly
\* One caller on one connection calls enqueue, claim_pending_entry,
\* mark_success and mark_error in any order with any arguments; lastCall
\* keeps the call, the table before it and what it returned.
ApiUnchanged ==
    UNCHANGED <<wsVars, clock, writer, uncommitted, pc, row, entry, audio, result, exc,
                files, waited, claimReturns, synthCalls>>

ApiEnqueue(t) ==
    /\ lastCall.n < MaxCalls
    /\ Len(jobs) < MaxJobs
    /\ jobs' = Append(jobs, NewJob(t, clock))
    /\ lastCall' = [op |-> "enqueue", n |-> lastCall.n + 1, pre |-> jobs, text |-> t, id |-> Len(jobs) + 1]
    /\ ApiUnchanged

ApiClaim ==
    /\ lastCall.n < MaxCalls
    /\ IF SelectOldestPending(jobs) = {}
       THEN /\ jobs' = jobs
            /\ lastCall' = [op |-> "claim", n |-> lastCall.n + 1, pre |-> jobs, returned |-> NULL]
       ELSE \E id \in SelectOldestPending(jobs) :
            IF ClaimMatches(jobs, id) = {}
            THEN /\ jobs' = jobs
                 /\ lastCall' = [op |-> "claim", n |-> lastCall.n + 1, pre |-> jobs, returned |-> NULL]
            ELSE /\ jobs' = ClaimUpdate(jobs, id, clock)
                 /\ lastCall' = [op |-> "claim", n |-> lastCall.n + 1, pre |-> jobs,
                                 returned |-> Some([id |-> id, text |-> jobs[id].text])]
    /\ ApiUnchanged

ApiMarkSuccess(id, path, dur) ==
    /\ lastCall.n < MaxCalls
    /\ jobs' = SuccessUpdate(jobs, id, path, dur, clock)
    /\ lastCall' = [op |-> "mark_success", n |-> lastCall.n + 1, pre |-> jobs, id |-> id,
                    audio_path |-> path, duration_ms |-> dur]
    /\ ApiUnchanged

ApiMarkError(id, msg) ==
    /\ lastCall.n < MaxCalls
    /\ jobs' = ErrorUpdate(jobs, id, msg, clock)
    /\ lastCall' = [op |-> "mark_error", n |-> lastCall.n + 1, pre |-> jobs, id |-> id, message |-> msg]
    /\ ApiUnchanged

\* ------------------------------------------------------ the web server
\* get_ai_response_with_session: the --resume argument of the command
Resume(session_id) == IF Truthy(session_id) THEN session_id ELSE NULL

\* get_ai_response_with_session: what it returns or raises for an output of
\* the subprocess.  The except clause catches JSONDecodeError, KeyError and
\* IndexError: the TypeError of data['result'] on a JSON value that is not
\* an object passes through it, like the failure of subprocess.run.
Returned(t, sid) == [raised |-> FALSE, text |-> t, new_session_id |-> sid, error |-> ""]
Raised(e) == [raised |-> TRUE, text |-> NULL, new_session_id |-> NULL, error |-> e]

Fallback(out) ==
    Returned(IF Strip(out.stdout.raw) # "" THEN Some(Strip(out.stdout.raw))
             ELSE Some("Error: " \o out.stderr),
             NULL)

GetAiResponseWithSession(out) ==
    IF ~out.started THEN Raised("FileNotFoundError")
    ELSE IF ~out.stdout.parses THEN Fallback(out)
    ELSE IF ~out.stdout.object THEN Raised("TypeError")
    ELSE IF "result" \notin out.stdout.keys THEN Fallback(out)
    ELSE IF "session_id" \notin out.stdout.keys THEN Fallback(out)
    ELSE Returned(out.stdout.result, out.stdout.session_id)

\* (mutant) safe_send without the ws.closed test and without the try: the
\* exception of send_json on a dead connection gets out
SafeSendUnguarded(state) == IF state = "open" THEN "sent" ELSE "raised"

\* safe_send: False without a send when ws.closed, False when send_json
\* raises (the connection is lost), True when the frame went out.
SafeSend(state) ==
    IF state = "closed" THEN "failed"
    ELSE IF state = "open" THEN "sent"
    ELSE "failed"

StatusFrame(n, phase, m) ==
    [req |-> n, type |-> "status", phase |-> phase, message |-> m,
     text |-> NULL, session_id |-> NULL, audio |-> NULL]
ErrorFrame(n, m) ==
    [req |-> n, type |-> "error", phase |-> "", message |-> m,
     text |-> NULL, session_id |-> NULL, audio |-> NULL]
ResponseFrame(n, t, sid, file) ==
    [req |-> n, type |-> "response", phase |-> "", message |-> "",
     text |-> t, session_id |-> sid, audio |-> Some(file)]

\* (mutant) the executor call without its session_id argument
RespondCallWithoutToken(n, p, sid) ==
    [call |-> "get_ai_response_with_session", req |-> n, prompt |-> p,
     session_id |-> NULL, resume |-> NULL, done |-> FALSE,
     out |-> NULL, result |-> NULL]

RespondCall(n, p, sid) ==
    [call |-> "get_ai_response_with_session", req |-> n, prompt |-> p,
     session_id |-> sid, resume |-> Resume(sid), done |-> FALSE,
     out |-> NULL, result |-> NULL]
SynthesizeCall(n, t) ==
    [call |-> "generate_tts", req |-> n, prompt |-> t,
     session_id |-> NULL, resume |-> NULL, done |-> FALSE,
     out |-> NULL, result |-> NULL]

\* The call in flight is the last one of the history.
Finish(c, out, res) ==
    [calls EXCEPT ![c][Len(calls[c])] =
        [@ EXCEPT !.done = TRUE, !.out = out, !.result = res]]

\* One await safe_send(ws, frame): the frame is delivered or not, and the
\* handler goes on at `next` after True, at `failed` after False, and at
\* `raised` if safe_send let an exception through.
Send(c, frame, next, failed, raised) ==
    /\ delivered' = [delivered EXCEPT ![c] =
                        IF SafeSend(ws[c]) = "sent" THEN Append(@, frame) ELSE @]
    /\ handler' = [handler EXCEPT ![c].pc =
                        IF SafeSend(ws[c]) = "sent" THEN next
                        ELSE IF SafeSend(ws[c]) = "failed" THEN failed
                        ELSE raised,
                    ![c].message = IF SafeSend(ws[c]) = "raised"
                                   THEN "ConnectionResetError" ELSE @,
                    ![c].unexpected = @ \/ (SafeSend(ws[c]) = "raised" /\ raised = "done")]

workerVars == <<jobs, clock, writer, uncommitted, pc, row, entry, audio, result,
                exc, files, waited, claimReturns, synthCalls, lastCall>>

\* (mutant) a handler that takes the next message while its call is still
\* on the executor
ReceiveWhileBusy(c) ==
    /\ handler[c].pc \in {"receive", "respond", "synthesize"}
    /\ ws[c] # "closed"
    /\ inbox[c] # <<>>
    /\ inbox' = [inbox EXCEPT ![c] = Tail(@)]
    /\ LET msg == Head(inbox[c])
           data == msg.data
           prompt == Get(data, "prompt", Some(""))
           session_id == Get(data, "session_id", NULL)
           h == [handler[c] EXCEPT !.n = @ + 1, !.msg = msg,
                                   !.prompt = NULL, !.session_id = NULL,
                                   !.text = NULL, !.new_session_id = NULL,
                                   !.message = ""]
       IN handler' = [handler EXCEPT ![c] =
            IF msg.type # "TEXT" THEN h
            ELSE IF ~data.parses
                 THEN [h EXCEPT !.pc = "except_json", !.message = "Invalid JSON"]
            ELSE IF ~data.object
                 THEN [h EXCEPT !.pc = "except", !.message = "AttributeError"]
            ELSE IF ~Truthy(prompt)
                 THEN [h EXCEPT !.pc = "no_prompt", !.prompt = prompt,
                                !.session_id = session_id]
            ELSE IF ~IsStr(prompt)
                 THEN [h EXCEPT !.pc = "except", !.prompt = prompt,
                                !.session_id = session_id, !.message = "TypeError"]
            ELSE [h EXCEPT !.pc = "thinking", !.prompt = prompt,
                           !.session_id = session_id]]
    /\ UNCHANGED <<workerVars, ws, delivered, pool, calls, written>>

\* async for msg in ws, up to the first await of the loop body: the message
\* is parsed and the prompt checked (lines 58-75).
Receive(c) ==
    /\ handler[c].pc = "receive"
    /\ ws[c] # "closed"
    /\ inbox[c] # <<>>
    /\ inbox' = [inbox EXCEPT ![c] = Tail(@)]
    /\ LET msg == Head(inbox[c])
           data == msg.data
           prompt == Get(data, "prompt", Some(""))
           session_id == Get(data, "session_id", NULL)
           h == [handler[c] EXCEPT !.n = @ + 1, !.msg = msg,
                                   !.prompt = NULL, !.session_id = NULL,
                                   !.text = NULL, !.new_session_id = NULL,
                                   !.message = ""]
       IN handler' = [handler EXCEPT ![c] =
            IF msg.type # "TEXT" THEN h
            ELSE IF ~data.parses
                 THEN [h EXCEPT !.pc = "except_json", !.message = "Invalid JSON"]
            ELSE IF ~data.object
                 THEN [h EXCEPT !.pc = "except", !.message = "AttributeError"]
            ELSE IF ~Truthy(prompt)
                 THEN [h EXCEPT !.pc = "no_prompt", !.prompt = prompt,
                                !.session_id = session_id]
            ELSE IF ~IsStr(prompt)
                 THEN [h EXCEPT !.pc = "except", !.prompt = prompt,
                                !.session_id = session_id, !.message = "TypeError"]
            ELSE [h EXCEPT !.pc = "thinking", !.prompt = prompt,
                           !.session_id = session_id]]
    /\ UNCHANGED <<workerVars, ws, delivered, pool, calls, written>>

\* (mutant) the handler without the continue after 'No prompt provided':
\* it goes on to the thinking phase
SendNoPromptFallsThrough(c) ==
    /\ handler[c].pc = "no_prompt"
    /\ Send(c, ErrorFrame(handler[c].n, "No prompt provided"), "thinking", "thinking", "except")
    /\ UNCHANGED <<workerVars, ws, inbox, pool, calls, written>>

\* if not prompt: await safe_send(error 'No prompt provided'); continue
SendNoPrompt(c) ==
    /\ handler[c].pc = "no_prompt"
    /\ Send(c, ErrorFrame(handler[c].n, "No prompt provided"), "receive", "receive", "except")
    /\ UNCHANGED <<workerVars, ws, inbox, pool, calls, written>>

\* (mutant) a handler that remembers the token of its last exchange and
\* passes it on when the message brings none
SendThinkingRemembers(c) ==
    /\ handler[c].pc = "thinking"
    /\ \E m \in SPINNER_MESSAGES.thinking :
        Send(c, StatusFrame(handler[c].n, "thinking", m), "respond", "receive", "except")
    /\ IF SafeSend(ws[c]) = "sent"
       THEN /\ pool' = [pool EXCEPT ![c] = "get_ai_response_with_session"]
            /\ calls' = [calls EXCEPT ![c] =
                  Append(@, RespondCall(handler[c].n, handler[c].prompt,
                      IF Truthy(handler[c].session_id) \/ calls[c] = <<>>
                      THEN handler[c].session_id
                      ELSE IF calls[c][Len(calls[c])].result = NULL
                           THEN handler[c].session_id
                           ELSE Val(calls[c][Len(calls[c])].result).new_session_id))]
       ELSE UNCHANGED <<pool, calls>>
    /\ UNCHANGED <<workerVars, ws, inbox, written>>

\* Phase 1: the thinking frame; after True the responder call is handed to
\* the executor, after False the request is dropped (continue).
SendThinking(c) ==
    /\ handler[c].pc = "thinking"
    /\ \E m \in SPINNER_MESSAGES.thinking :
        Send(c, StatusFrame(handler[c].n, "thinking", m), "respond", "receive", "except")
    /\ IF SafeSend(ws[c]) = "sent"
       THEN /\ pool' = [pool EXCEPT ![c] = "get_ai_response_with_session"]
            /\ calls' = [calls EXCEPT ![c] =
                            Append(@, RespondCall(handler[c].n, handler[c].prompt,
                                                  handler[c].session_id))]
       ELSE UNCHANGED <<pool, calls>>
    /\ UNCHANGED <<workerVars, ws, inbox, written>>

\* (mutant) the handler without its test of the empty text: the generating
\* frame is sent for an empty reply
RespondReturnsNoEmptyCheck(c) ==
    /\ handler[c].pc = "respond"
    /\ pool[c] = "get_ai_response_with_session"
    /\ \E out \in ResponderOutputs :
        LET r == GetAiResponseWithSession(out) IN
        /\ calls' = Finish(c, Some(out), Some(r))
        /\ handler' = [handler EXCEPT ![c] =
              IF r.raised THEN [@ EXCEPT !.pc = "except", !.message = r.error]
              ELSE IF ~IsStr(r.text)
                   THEN [@ EXCEPT !.pc = "except", !.text = r.text,
                                  !.new_session_id = r.new_session_id,
                                  !.message = "TypeError"]
              ELSE [@ EXCEPT !.pc = "generating", !.text = r.text,
                             !.new_session_id = r.new_session_id]]
    /\ pool' = [pool EXCEPT ![c] = "idle"]
    /\ UNCHANGED <<workerVars, ws, inbox, delivered, written>>

\* get_ai_response_with_session returns or raises on the executor and the
\* handler resumes (lines 85-94); text[:100] of the log line raises for a
\* text that is not a string, before the test of the empty text.
RespondReturns(c) ==
    /\ handler[c].pc = "respond"
    /\ pool[c] = "get_ai_response_with_session"
    /\ \E out \in ResponderOutputs :
        LET r == GetAiResponseWithSession(out) IN
        /\ calls' = Finish(c, Some(out), Some(r))
        /\ handler' = [handler EXCEPT ![c] =
              IF r.raised THEN [@ EXCEPT !.pc = "except", !.message = r.error]
              ELSE IF ~IsStr(r.text)
                   THEN [@ EXCEPT !.pc = "except", !.text = r.text,
                                  !.new_session_id = r.new_session_id,
                                  !.message = "TypeError"]
              ELSE IF ~Truthy(r.text)
                   THEN [@ EXCEPT !.pc = "empty_reply", !.text = r.text,
                                  !.new_session_id = r.new_session_id]
              ELSE [@ EXCEPT !.pc = "generating", !.text = r.text,
                             !.new_session_id = r.new_session_id]]
    /\ pool' = [pool EXCEPT ![c] = "idle"]
    /\ UNCHANGED <<workerVars, ws, inbox, delivered, written>>

\* (mutant) the handler that drops an empty reply without a frame
SendEmptyReplySilent(c) ==
    /\ handler[c].pc = "empty_reply"
    /\ handler' = [handler EXCEPT ![c].pc = "receive"]
    /\ UNCHANGED <<workerVars, ws, inbox, delivered, pool, calls, written>>

\* (mutant) the handler that ends after the error frame of an empty reply:
\* a return in the place of the continue
SendEmptyReplyReturns(c) ==
    /\ handler[c].pc = "empty_reply"
    /\ Send(c, ErrorFrame(handler[c].n, "Failed to get AI response"),
            "done", "done", "except")
    /\ UNCHANGED <<workerVars, ws, inbox, pool, calls, written>>

\* if not text: await safe_send(error 'Failed to get AI response'); continue
SendEmptyReply(c) ==
    /\ handler[c].pc = "empty_reply"
    /\ Send(c, ErrorFrame(handler[c].n, "Failed to get AI response"),
            "receive", "receive", "except")
    /\ UNCHANGED <<workerVars, ws, inbox, pool, calls, written>>

\* (mutant) the handler that does not look at the result of the generating
\* send: generate_tts is called whether the frame went out or not
SendGeneratingIgnoresResult(c) ==
    /\ handler[c].pc = "generating"
    /\ \E m \in SPINNER_MESSAGES.generating :
        Send(c, StatusFrame(handler[c].n, "generating", m), "synthesize", "synthesize", "except")
    /\ pool' = [pool EXCEPT ![c] = "generate_tts"]
    /\ calls' = [calls EXCEPT ![c] =
                    Append(@, SynthesizeCall(handler[c].n, handler[c].text))]
    /\ UNCHANGED <<workerVars, ws, inbox, written>>

\* Phase 2: the generating frame; after True generate_tts is handed to the
\* executor, after False the request is dropped (continue).
SendGenerating(c) ==
    /\ handler[c].pc = "generating"
    /\ \E m \in SPINNER_MESSAGES.generating :
        Send(c, StatusFrame(handler[c].n, "generating", m), "synthesize", "receive", "except")
    /\ IF SafeSend(ws[c]) = "sent"
       THEN /\ pool' = [pool EXCEPT ![c] = "generate_tts"]
            /\ calls' = [calls EXCEPT ![c] =
                            Append(@, SynthesizeCall(handler[c].n, handler[c].text))]
       ELSE UNCHANGED <<pool, calls>>
    /\ UNCHANGED <<workerVars, ws, inbox, written>>

\* generate_tts returns or raises on the executor and the handler resumes.
SynthesizeReturns(c) ==
    /\ handler[c].pc = "synthesize"
    /\ pool[c] = "generate_tts"
    /\ \E ok \in BOOLEAN :
        /\ calls' = Finish(c, NULL, Some(Returned(NULL, NULL)))
        /\ handler' = [handler EXCEPT ![c] =
              IF ok THEN [@ EXCEPT !.pc = "write"]
              ELSE [@ EXCEPT !.pc = "except", !.message = "SynthesisError"]]
    /\ pool' = [pool EXCEPT ![c] = "idle"]
    /\ UNCHANGED <<workerVars, ws, inbox, delivered, written>>

\* write(audio_path, 22050, audio) and the duration read with wave.open:
\* either may raise, the second with the file already written.
WriteAudio(c) ==
    /\ handler[c].pc = "write"
    /\ \E outcome \in {"ok", "write raises", "wave.open raises"} :
        /\ written' = IF outcome = "write raises" THEN written
                      ELSE written \cup {<<c, handler[c].n>>}
        /\ handler' = [handler EXCEPT ![c] =
              IF outcome = "ok" THEN [@ EXCEPT !.pc = "response"]
              ELSE [@ EXCEPT !.pc = "except",
                             !.message = IF outcome = "write raises"
                                         THEN "OSError" ELSE "wave.Error"]]
    /\ UNCHANGED <<workerVars, ws, inbox, delivered, pool, calls>>

\* (mutant) a response frame that carries the session_id of the inbound
\* message
SendResponseEchoesInbound(c) ==
    /\ handler[c].pc = "response"
    /\ Send(c, ResponseFrame(handler[c].n, handler[c].text, handler[c].session_id,
                             <<c, handler[c].n>>),
            "receive", "receive", "except")
    /\ UNCHANGED <<workerVars, ws, inbox, pool, calls, written>>

\* Phase 3: the response frame; the result of safe_send is not looked at.
SendResponse(c) ==
    /\ handler[c].pc = "response"
    /\ Send(c, ResponseFrame(handler[c].n, handler[c].text, handler[c].new_session_id,
                             <<c, handler[c].n>>),
            "receive", "receive", "except")
    /\ UNCHANGED <<workerVars, ws, inbox, pool, calls, written>>

\* except json.JSONDecodeError: await safe_send(error 'Invalid JSON')
SendInvalidJson(c) ==
    /\ handler[c].pc = "except_json"
    /\ Send(c, ErrorFrame(handler[c].n, handler[c].message), "receive", "receive", "done")
    /\ UNCHANGED <<workerVars, ws, inbox, pool, calls, written>>

\* (mutant) the loop body without its except Exception clause: the failure
\* of a step ends the loop in the handler of unexpected errors, which closes
\* the connection
SendExceptionPropagates(c) ==
    /\ handler[c].pc = "except"
    /\ handler' = [handler EXCEPT ![c].pc = "done", ![c].unexpected = TRUE]
    /\ ws' = [ws EXCEPT ![c] = IF @ = "open" THEN "closed" ELSE @]
    /\ UNCHANGED <<workerVars, inbox, delivered, pool, calls, written>>

\* except Exception as e: await safe_send(error str(e))
SendException(c) ==
    /\ handler[c].pc = "except"
    /\ Send(c, ErrorFrame(handler[c].n, handler[c].message), "receive", "receive", "done")
    /\ UNCHANGED <<workerVars, ws, inbox, pool, calls, written>>

\* The async for ends: the connection is closed, or lost with nothing left
\* to read; the handler returns ws.
EndOfStream(c) ==
    /\ handler[c].pc = "receive"
    /\ ws[c] = "closed" \/ (ws[c] = "lost" /\ inbox[c] = <<>>)
    /\ handler' = [handler EXCEPT ![c].pc = "done"]
    /\ UNCHANGED <<workerVars, ws, inbox, delivered, pool, calls, written>>

\* The handler's task is cancelled at one of its awaits (the server shuts
\* down): except asyncio.CancelledError, finally, return ws.  A call on the
\* executor is not interrupted.
Cancel(c) ==
    /\ handler[c].pc \in {"receive", "respond", "synthesize"}
    /\ handler' = [handler EXCEPT ![c].pc = "done"]
    /\ ws' = [ws EXCEPT ![c] = IF @ = "open" THEN "closed" ELSE @]
    /\ UNCHANGED <<workerVars, inbox, delivered, pool, calls, written>>

\* A call on the executor whose handler is gone completes; nobody reads its
\* result.
AbandonedReturns(c) ==
    /\ handler[c].pc = "done"
    /\ pool[c] # "idle"
    /\ pool' = [pool EXCEPT ![c] = "idle"]
    /\ calls' = Finish(c, NULL, NULL)
    /\ UNCHANGED <<workerVars, ws, inbox, handler, delivered, written>>

\* ------------------------------------------------------------ the clients
\* The messages the clients of the connections S have sent so far.
RECURSIVE MsgsSent(_)
MsgsSent(S) ==
    IF S = {} THEN 0
    ELSE LET c == CHOOSE x \in S : TRUE
         IN handler[c].n + Len(inbox[c]) + MsgsSent(S \ {c})

\* A client sends a message on its open connection.
ClientSend(c, msg) ==
    /\ ws[c] = "open"
    /\ MsgsSent(Conns) < MaxMsgs
    /\ inbox' = [inbox EXCEPT ![c] = Append(@, msg)]
    /\ UNCHANGED <<workerVars, ws, handler, delivered, pool, calls, written>>

\* (mutant) a server that cancels the handler and its executor call when
\* the client goes away
ClientDropCancels(c) ==
    /\ ws[c] = "open"
    /\ handler[c].pc # "done"
    /\ ws' = [ws EXCEPT ![c] = "closed"]
    /\ handler' = [handler EXCEPT ![c].pc = "done"]
    /\ pool' = [pool EXCEPT ![c] = "idle"]
    /\ UNCHANGED <<workerVars, inbox, delivered, calls, written>>

\* The client goes away: the server sees the close (ws.closed) or only a
\* dead transport (send_json raises).
ClientDrop(c) ==
    /\ ws[c] = "open"
    /\ handler[c].pc # "done"
    /\ \E state \in {"lost", "closed"} : ws' = [ws EXCEPT ![c] = state]
    /\ UNCHANGED <<workerVars, inbox, handler, delivered, pool, calls, written>>

\* -------------------------------------------------------- specifications
InitWorkers(n) ==
    /\ pc = [w \in 1..n |-> "connect"]
    /\ row = [w \in 1..n |-> NULL]
    /\ entry = [w \in 1..n |-> NULL]
    /\ audio = [w \in 1..n |-> NULL]
    /\ result = [w \in 1..n |-> NULL]
    /\ exc = [w \in 1..n |-> NULL]
    /\ waited = [w \in 1..n |-> 0]

\* No client is connected to the web server.
InitGateway(n) ==
    /\ ws = [c \in 1..n |-> "open"]
    /\ inbox = [c \in 1..n |-> <<>>]
    /\ handler = [c \in 1..n |-> NewHandler]
    /\ delivered = [c \in 1..n |-> <<>>]
    /\ pool = [c \in 1..n |-> "idle"]
    /\ calls = [c \in 1..n |-> <<>>]
    /\ written = {}

InitStore ==
    /\ clock = 0
    /\ writer = 0
    /\ uncommitted = <<>>
    /\ files = {}
    /\ claimReturns = [i \in Ids |-> 0]
    /\ synthCalls = [i \in Ids |-> 0]
    /\ lastCall = NoCall

\* The worker processes, the clients that enqueue, an unreliable store and
\* the operator.
Init ==
    /\ jobs = <<>>
    /\ InitStore
    /\ InitWorkers(NumWorkers)
    /\ InitGateway(0)

Next ==
    \/ \E w \in Workers : Connect(w)
    \/ \E w \in Workers : Select(w)
    \/ \E w \in Workers : Update(w)
    \/ \E w \in Workers : ClaimCommit(w)
    \/ \E w \in Workers : GenerateTts(w)
    \/ \E w \in Workers : WriteWav(w)
    \/ \E w \in Workers : GetDuration(w)
    \/ \E w \in Workers : ProcessFail(w)
    \/ \E w \in Workers : MarkSuccess(w)
    \/ \E w \in Workers : SuccessCommit(w)
    \/ \E w \in Workers : MarkError(w)
    \/ \E w \in Workers : ErrorCommit(w)
    \/ \E w \in Workers : IdleSleep(w)
    \/ \E w \in Workers : Close(w)
    \/ \E w \in Workers : Backoff(w)
    \/ \E w \in Workers : StoreFault(w)
    \/ \E w \in Workers : Interrupt(w)
    \/ \E t \in QueuedTexts : Enqueue(t)
    \/ Tick

Spec == Init /\ [][Next]_vars

\* The claim race: one pending row, RaceWorkers workers that are never
\* interrupted, and a store that fails only by lock contention.
RaceInit ==
    /\ \E t \in Texts : jobs = <<NewJob(t, 0)>>
    /\ InitStore
    /\ InitWorkers(RaceWorkers)
    /\ InitGateway(0)

RaceNext ==
    \/ \E w \in Workers : Connect(w)
    \/ \E w \in Workers : Select(w)
    \/ \E w \in Workers : Update(w)
    \/ \E w \in Workers : ClaimCommit(w)
    \/ \E w \in Workers : GenerateTts(w)
    \/ \E w \in Workers : WriteWav(w)
    \/ \E w \in Workers : GetDuration(w)
    \/ \E w \in Workers : ProcessFail(w)
    \/ \E w \in Workers : MarkSuccess(w)
    \/ \E w \in Workers : SuccessCommit(w)
    \/ \E w \in Workers : MarkError(w)
    \/ \E w \in Workers : ErrorCommit(w)
    \/ \E w \in Workers : IdleSleep(w)
    \/ \E w \in Workers : Close(w)
    \/ \E w \in Workers : Backoff(w)
    \/ \E w \in Workers : LockTimeout(w)

RaceSpec == RaceInit /\ [][RaceNext]_vars

\* Every worker process keeps running: a step of main that stays possible is
\* taken (no worker is interrupted in the race, and every call returns).
WorkerStep(w) ==
    \/ Connect(w) \/ Select(w) \/ Update(w) \/ ClaimCommit(w)
    \/ GenerateTts(w) \/ WriteWav(w) \/ GetDuration(w) \/ ProcessFail(w)
    \/ MarkSuccess(w) \/ SuccessCommit(w) \/ MarkError(w) \/ ErrorCommit(w)
    \/ IdleSleep(w) \/ Close(w) \/ Backoff(w) \/ LockTimeout(w)

Fairness == \A w \in 1..LiveWorkers : WF_vars(WorkerStep(w))

\* One failing or succeeding job and LiveWorkers workers that run for ever.
LiveInit ==
    /\ jobs = <<NewJob("Hello", 0)>>
    /\ InitStore
    /\ InitWorkers(LiveWorkers)
    /\ InitGateway(0)

LiveSpec == LiveInit /\ [][RaceNext]_vars /\ Fairness

\* A quiet run: OwnWorkers workers that are never interrupted, clients that
\* enqueue, and a store on which no call fails.
OwnInit ==
    /\ jobs = <<>>
    /\ InitStore
    /\ InitWorkers(OwnWorkers)
    /\ InitGateway(0)

OwnNext ==
    \/ \E w \in Workers : Connect(w)
    \/ \E w \in Workers : Select(w)
    \/ \E w \in Workers : Update(w)
    \/ \E w \in Workers : ClaimCommit(w)
    \/ \E w \in Workers : GenerateTts(w)
    \/ \E w \in Workers : WriteWav(w)
    \/ \E w \in Workers : GetDuration(w)
    \/ \E w \in Workers : ProcessFail(w)
    \/ \E w \in Workers : MarkSuccess(w)
    \/ \E w \in Workers : SuccessCommit(w)
    \/ \E w \in Workers : MarkError(w)
    \/ \E w \in Workers : ErrorCommit(w)
    \/ \E w \in Workers : IdleSleep(w)
    \/ \E w \in Workers : Close(w)
    \/ \E t \in QueuedTexts : Enqueue(t)
    \/ Tick

OwnSpec == OwnInit /\ [][OwnNext]_vars

\* The web server with NumConns connected clients.
WsInit ==
    /\ jobs = <<>>
    /\ InitStore
    /\ InitWorkers(0)
    /\ InitGateway(NumConns)

WsNext ==
    \/ \E c \in Conns : Receive(c)
    \/ \E c \in Conns : SendNoPrompt(c)
    \/ \E c \in Conns : SendThinking(c)
    \/ \E c \in Conns : RespondReturns(c)
    \/ \E c \in Conns : SendEmptyReply(c)
    \/ \E c \in Conns : SendGenerating(c)
    \/ \E c \in Conns : SynthesizeReturns(c)
    \/ \E c \in Conns : WriteAudio(c)
    \/ \E c \in Conns : SendResponse(c)
    \/ \E c \in Conns : SendInvalidJson(c)
    \/ \E c \in Conns : SendException(c)
    \/ \E c \in Conns : EndOfStream(c)
    \/ \E c \in Conns : Cancel(c)
    \/ \E c \in Conns : AbandonedReturns(c)
    \/ \E c \in Conns, msg \in Inbound : ClientSend(c, msg)
    \/ \E c \in Conns : ClientDrop(c)

WsSpec == WsInit /\ [][WsNext]_vars

\* The web server with clients that stay connected and a server that is
\* not shut down: the handler of every connection keeps running, and every
\* call it hands to the executor returns or raises.
HandlerRuns(c) ==
    \/ Receive(c) \/ SendNoPrompt(c) \/ SendThinking(c) \/ RespondReturns(c)
    \/ SendEmptyReply(c) \/ SendGenerating(c) \/ SynthesizeReturns(c)
    \/ WriteAudio(c) \/ SendResponse(c) \/ SendInvalidJson(c)
    \/ SendException(c)

OpenNext ==
    \/ \E c \in Conns : Receive(c)
    \/ \E c \in Conns : SendNoPrompt(c)
    \/ \E c \in Conns : SendThinking(c)
    \/ \E c \in Conns : RespondReturns(c)
    \/ \E c \in Conns : SendEmptyReply(c)
    \/ \E c \in Conns : SendGenerating(c)
    \/ \E c \in Conns : SynthesizeReturns(c)
    \/ \E c \in Conns : WriteAudio(c)
    \/ \E c \in Conns : SendResponse(c)
    \/ \E c \in Conns : SendInvalidJson(c)
    \/ \E c \in Conns : SendException(c)
    \/ \E c \in Conns, msg \in Inbound : ClientSend(c, msg)

OpenFairness == \A c \in 1..NumConns : WF_vars(HandlerRuns(c))

OpenSpec == WsInit /\ [][OpenNext]_vars /\ OpenFairness

\* The web server in conversation: clients that stay connected send
\* prompts with every kind of session_id field (none, the empty string, a
\* token the responder has given out, another one).
RelayData ==
    {JsonText("{prompt:'hi'}", {"prompt"}, Some("hi"), NULL, NULL),
     JsonText("{prompt:'hi',session_id:''}", {"prompt", "session_id"},
              Some("hi"), Some(""), NULL),
     JsonText("{prompt:'hi',session_id:'s1'}", {"prompt", "session_id"},
              Some("hi"), Some("s1"), NULL),
     JsonText("{prompt:'hi',session_id:'s2'}", {"prompt", "session_id"},
              Some("hi"), Some("s2"), NULL)}

RelaySend(c) ==
    \E data \in RelayData : ClientSend(c, [type |-> "TEXT", data |-> data])

RelayNext ==
    \/ \E c \in Conns : Receive(c)
    \/ \E c \in Conns : SendThinking(c)
    \/ \E c \in Conns : RespondReturns(c)
    \/ \E c \in Conns : SendEmptyReply(c)
    \/ \E c \in Conns : SendGenerating(c)
    \/ \E c \in Conns : SynthesizeReturns(c)
    \/ \E c \in Conns : WriteAudio(c)
    \/ \E c \in Conns : SendResponse(c)
    \/ \E c \in Conns : SendException(c)
    \/ \E c \in Conns : RelaySend(c)

RelaySpec == WsInit /\ [][RelayNext]_vars

\* The store functions called directly.
ApiInit ==
    /\ jobs = <<>>
    /\ InitStore
    /\ InitWorkers(0)
    /\ InitGateway(0)

ApiNext ==
    \/ \E t \in Texts : ApiEnqueue(t)
    \/ ApiClaim
    \/ \E id \in Ids, r \in ApiResults : ApiMarkSuccess(id, r.audio_path, r.duration_ms)
    \/ \E id \in Ids, msg \in ApiMessages : ApiMarkError(id, msg)
    \/ Tick

ApiSpec == ApiInit /\ [][ApiNext]_vars

\* The event loop shared by the handlers of GatewayConns connections whose
\* clients send prompts and stay connected.  A collaborator call made on the loop's own thread
\* would keep every other handler from running until it returns; the
\* handler makes both of its calls with loop.run_in_executor(None, ...), so
\* none runs there.
GatewayInit ==
    /\ jobs = <<>>
    /\ InitStore
    /\ InitWorkers(0)
    /\ InitGateway(GatewayConns)

\* (mutant) get_ai_response_with_session called in the coroutine itself
OnLoopCallsResponder == {"get_ai_response_with_session"}

\* The collaborator calls that run on the event loop's thread.
OnLoopCalls == {}

\* The loop can run the handler of c: no call of another handler holds the
\* loop's thread.
Scheduled(c) == \A d \in Conns \ {c} : pool[d] \notin OnLoopCalls

\* A client sends a prompt that opens a conversation.
PromptSend(c) ==
    /\ handler[c].n + Len(inbox[c]) < GatewayMsgs
    /\ \E msg \in {m \in Inbound : /\ m.type = "TEXT"
                                    /\ IsStr(m.data.prompt)
                                    /\ Truthy(m.data.prompt)
                                    /\ "session_id" \notin m.data.keys} :
          ClientSend(c, msg)

\* One step of the handler of c on the event loop.
HandlerStep(c) ==
    \/ Receive(c) \/ SendThinking(c) \/ RespondReturns(c) \/ SendEmptyReply(c)
    \/ SendGenerating(c) \/ SynthesizeReturns(c) \/ WriteAudio(c)
    \/ SendResponse(c) \/ SendException(c)

GatewayNext ==
    \/ \E c \in Conns : Scheduled(c) /\ Receive(c)
    \/ \E c \in Conns : Scheduled(c) /\ SendThinking(c)
    \/ \E c \in Conns : Scheduled(c) /\ RespondReturns(c)
    \/ \E c \in Conns : Scheduled(c) /\ SendEmptyReply(c)
    \/ \E c \in Conns : Scheduled(c) /\ SendGenerating(c)
    \/ \E c \in Conns : Scheduled(c) /\ SynthesizeReturns(c)
    \/ \E c \in Conns : Scheduled(c) /\ WriteAudio(c)
    \/ \E c \in Conns : Scheduled(c) /\ SendResponse(c)
    \/ \E c \in Conns : Scheduled(c) /\ SendException(c)
    \/ \E c \in Conns : PromptSend(c)

GatewaySpec == GatewayInit /\ [][GatewayNext]_vars

\* ================================================================ claims
\* The first n characters of a string.
Prefix(msg, n) == [k \in 1..Min(Len(msg), n) |-> msg[k]]

ClaimPcs == {"update", "claim_commit"}
ProcessPcs == {"generate_tts", "write_wav", "get_duration"}

\* C1: no job id is returned by more than one claim_pending_entry call over
\* the whole history, whatever the interleaving of the workers.
C1_AtMostOneClaim == \A i \in Ids : claimReturns[i] <= 1

\* A claim returned a job while another worker, which had selected the same
\* row, lost the race and sits on its zero-row UPDATE.
C1_Witness ==
    \E i \in DOMAIN jobs, w \in Workers :
        /\ claimReturns[i] = 1
        /\ pc[w] = "idle_sleep"
        /\ writer = w

\* C2: of the claim attempts that selected the one pending row, exactly one
\* returns the job and every other returns None: none leaves
\* claim_pending_entry by an exception, and once no attempt is in flight
\* the job was returned exactly once.
C2_ExactlyOneClaimant ==
    [][\A w \in Workers :
        pc[w] \in ClaimPcs =>
            /\ pc'[w] \in ClaimPcs \cup {"idle_sleep", "generate_tts"}
            /\ claimReturns'[1] <= 1
            /\ (\A v \in Workers : pc'[v] \notin ClaimPcs) => claimReturns'[1] = 1]_vars

\* C3: every change of the status of a row of the table is one of
\* pending -> processing, processing -> success, processing -> error.
C3_StatusMonotonic ==
    [][\A i \in DOMAIN jobs :
        jobs'[i].status # jobs[i].status =>
            <<jobs[i].status, jobs'[i].status>> \in
                {<<"pending", "processing">>, <<"processing", "success">>,
                 <<"processing", "error">>}]_vars

\* One job succeeded and one was recorded as failed after its worker's
\* mark_success raised.
C3_Witness ==
    \E i, k \in DOMAIN jobs :
        /\ jobs[i].status = "success"
        /\ jobs[k].status = "error"
        /\ jobs[k].error_message = Some(StoreErrorMessage)

\* C4: mark_success for a job that is not in processing leaves its status,
\* audio_path, duration_ms and completed_at as they were.
C4_MarkSuccessNeedsProcessing ==
    (/\ lastCall.op = "mark_success"
     /\ lastCall.id \in DOMAIN lastCall.pre
     /\ lastCall.pre[lastCall.id].status # "processing")
    => /\ jobs[lastCall.id].status = lastCall.pre[lastCall.id].status
       /\ jobs[lastCall.id].audio_path = lastCall.pre[lastCall.id].audio_path
       /\ jobs[lastCall.id].duration_ms = lastCall.pre[lastCall.id].duration_ms
       /\ jobs[lastCall.id].completed_at = lastCall.pre[lastCall.id].completed_at

\* C5: enqueue(t) inserts a pending row of text t; a claim against a table
\* with one pending row returns that row's id and text and leaves the row in
\* processing; mark_success(id, p, d) on it leaves status success,
\* audio_path p and duration_ms d, and the text as enqueued.
C5_RoundTrip ==
    /\ lastCall.op = "enqueue" =>
        /\ jobs[lastCall.id].text = lastCall.text
        /\ jobs[lastCall.id].status = "pending"
        /\ lastCall.id \notin DOMAIN lastCall.pre
    /\ lastCall.op = "claim" =>
        \A j \in DOMAIN lastCall.pre :
            Pending(lastCall.pre) = {j} =>
                /\ lastCall.returned = Some([id |-> j, text |-> lastCall.pre[j].text])
                /\ jobs[j].status = "processing"
                /\ jobs[j].text = lastCall.pre[j].text
    /\ (/\ lastCall.op = "mark_success"
        /\ lastCall.id \in DOMAIN lastCall.pre
        /\ lastCall.pre[lastCall.id].status = "processing") =>
        /\ jobs[lastCall.id].status = "success"
        /\ jobs[lastCall.id].audio_path = Some(lastCall.audio_path)
        /\ jobs[lastCall.id].duration_ms = Some(lastCall.duration_ms)
        /\ jobs[lastCall.id].text = lastCall.pre[lastCall.id].text

\* The scenario of the round trip: "Hello" was enqueued and claimed, and
\* mark_success("out.raw", 1500) was called on it.
C5_Witness ==
    /\ lastCall.op = "mark_success"
    /\ lastCall.id \in DOMAIN lastCall.pre
    /\ lastCall.pre[lastCall.id].status = "processing"
    /\ jobs[lastCall.id].text = "Hello"
    /\ jobs[lastCall.id].audio_path = Some(<<"out.raw">>)
    /\ jobs[lastCall.id].duration_ms = Some(1500)

\* C6: a claim returns the pending row of the smallest created_at and, among
\* pending rows of equal created_at, of the lowest id.
C6_OldestThenLowestId ==
    (lastCall.op = "claim" /\ Pending(lastCall.pre) # {}) =>
        /\ lastCall.returned # NULL
        /\ \A k \in Pending(lastCall.pre) :
            \/ lastCall.pre[Val(lastCall.returned).id].created_at < lastCall.pre[k].created_at
            \/ /\ lastCall.pre[Val(lastCall.returned).id].created_at = lastCall.pre[k].created_at
               /\ Val(lastCall.returned).id <= k

\* C7: no row goes from pending to processing while a row of a strictly
\* earlier created_at is pending.
C7_ArrivalOrder ==
    [][\A i \in DOMAIN jobs :
        (jobs[i].status = "pending" /\ jobs'[i].status = "processing") =>
            \A k \in DOMAIN jobs :
                jobs[k].status = "pending" => jobs[k].created_at >= jobs[i].created_at]_vars

\* The older of two jobs was claimed while the younger is still pending.
C7_Witness ==
    \E i, k \in DOMAIN jobs :
        /\ jobs[i].status = "processing"
        /\ jobs[k].status = "pending"
        /\ jobs[i].created_at < jobs[k].created_at

\* C8: a conditional UPDATE that finds the selected row no longer pending
\* returns None without raising, changes no row, and main goes on as after
\* an empty SELECT: to the poll-interval sleep, with no entry and no error.
C8_ConflictIsBenign ==
    [][\A w \in Workers :
        (/\ pc[w] = "update"
         /\ writer # w
         /\ writer' = w
         /\ jobs[Val(row[w]).id].status # "pending") =>
            /\ pc'[w] = "idle_sleep"
            /\ entry'[w] = NULL
            /\ exc'[w] = NULL
            /\ jobs' = jobs
            /\ uncommitted' = jobs
            /\ claimReturns' = claimReturns]_vars

\* A worker lost the race for a row another worker has claimed.
C8_Witness ==
    \E w \in Workers, i \in DOMAIN jobs :
        /\ pc[w] = "idle_sleep"
        /\ writer = w
        /\ entry[w] = NULL
        /\ jobs[i].status = "processing"

\* C9: a stored error_message has at most 500 characters, and mark_error
\* stores the first 500 characters of the message it is given.
C9_ErrorMessageCap ==
    /\ \A i \in DOMAIN jobs :
        jobs[i].error_message # NULL => Len(Val(jobs[i].error_message)) <= ERROR_MESSAGE_CAP
    /\ (lastCall.op = "mark_error" /\ lastCall.id \in DOMAIN jobs) =>
        jobs[lastCall.id].error_message = Some(Prefix(lastCall.message, ERROR_MESSAGE_CAP))

\* mark_error was given a message ten times the cap.
C9_Witness ==
    /\ lastCall.op = "mark_error"
    /\ lastCall.id \in DOMAIN jobs
    /\ Len(lastCall.message) = 10 * ERROR_MESSAGE_CAP
    /\ Len(Val(jobs[lastCall.id].error_message)) = ERROR_MESSAGE_CAP

\* C10: when process_entry fails for a claimed job, main calls mark_error
\* for that job with the failure description, mark_error returns with the
\* job in status error with that description (cut to the cap), and the
\* worker goes on to close its connection, open the next one and make its
\* next claim attempt.
C10_FailureIsRecorded ==
    [][\A w \in Workers :
        /\ (pc[w] \in ProcessPcs /\ pc'[w] \notin ProcessPcs \cup {"mark_success"}) =>
            /\ pc'[w] = "mark_error"
            /\ exc'[w] # NULL
            /\ Val(exc'[w]) \in FailureDescriptions
            /\ entry'[w] = entry[w]
        /\ (pc[w] = "mark_error" /\ pc'[w] # "mark_error") =>
            /\ pc'[w] = "error_commit"
            /\ uncommitted'[Val(entry[w]).id].status = "error"
            /\ uncommitted'[Val(entry[w]).id].error_message =
                   Some(Prefix(Val(exc[w]), ERROR_MESSAGE_CAP))
        /\ (pc[w] = "error_commit" /\ pc'[w] # "error_commit") =>
            /\ pc'[w] = "close"
            /\ jobs'[Val(entry[w]).id].status = "error"
            /\ jobs'[Val(entry[w]).id].error_message =
                   Some(Prefix(Val(exc[w]), ERROR_MESSAGE_CAP))
        /\ (pc[w] = "close" /\ pc'[w] # "close") => pc'[w] = "connect"
        /\ (pc[w] = "connect" /\ pc'[w] # "connect") => pc'[w] = "select"]_vars

\* C11: with workers that are never interrupted, a store that answers and
\* synthesizer calls that return, every job of the table eventually reaches
\* status success or error.
C11_EveryJobTerminates ==
    \A i \in Ids :
        (i \in DOMAIN jobs) ~>
            (i \in DOMAIN jobs /\ jobs[i].status \in {"success", "error"})

\* C12: a worker leaves its loop only by the operator's interruption; an
\* exception of the store (opening it, claiming, marking) or of process_entry
\* is caught, by the inner except clause (then mark_error is called) or by
\* the outer one (then the worker backs off), and after the back-off the
\* worker opens the store again.
C12_OnlyInterruptStops ==
    [][\A w \in Workers :
        /\ (pc[w] # "stopped" /\ pc'[w] = "stopped") => Interrupt(w)
        /\ StoreFault(w) => pc'[w] \in {"mark_error", "backoff"}
        /\ ProcessFail(w) => pc'[w] = "mark_error"
        /\ (pc[w] = "backoff" /\ pc'[w] \notin {"backoff", "stopped"}) =>
            pc'[w] = "connect"
        /\ pc[w] = "stopped" => pc'[w] = "stopped"]_vars

\* mark_error raised for a claimed job: the worker is in the outer except
\* clause, the job still in processing.
C12_Witness ==
    \E w \in Workers :
        /\ pc[w] = "backoff"
        /\ entry[w] # NULL
        /\ jobs[Val(entry[w]).id].status = "processing"

\* The frames delivered for the n-th message of connection c, and their
\* kinds: thinking, generating, response, error.
FramesOf(c, n) == SelectSeq(delivered[c], LAMBDA f : f.req = n)
Label(f) == IF f.type = "status" THEN f.phase ELSE f.type
LabelsOf(c, n) == [i \in 1..Len(FramesOf(c, n)) |-> Label(FramesOf(c, n)[i])]
Terminal == {"response", "error"}

\* The n-th message of c was a request (its thinking frame went out) and has
\* got its terminal frame.
RequestCompleted(c, n) ==
    /\ LabelsOf(c, n) # <<>>
    /\ LabelsOf(c, n)[1] = "thinking"
    /\ LabelsOf(c, n)[Len(LabelsOf(c, n))] \in Terminal

\* The responder returned a non-empty string for the n-th message of c.
Replied(c, n) ==
    \E k \in DOMAIN calls[c] :
        /\ calls[c][k].call = "get_ai_response_with_session"
        /\ calls[c][k].req = n
        /\ calls[c][k].done
        /\ calls[c][k].result # NULL
        /\ ~Val(calls[c][k].result).raised
        /\ IsStr(Val(calls[c][k].result).text)
        /\ Truthy(Val(calls[c][k].result).text)

\* C13 as stated: the frames of a completed request are thinking,
\* generating and one terminal frame, whichever step failed.
C13_ThreePhases ==
    \A c \in Conns : \A n \in 1..handler[c].n :
        RequestCompleted(c, n) =>
            LabelsOf(c, n) \in {<<"thinking", "generating", "response">>,
                                <<"thinking", "generating", "error">>}

\* C13, amended: the frames of a completed request are thinking, then
\* generating exactly when the responder returned a non-empty string, then
\* one terminal frame, which is an error frame when generating is missing;
\* the frames of a request in progress are a prefix of such a sequence.
C13_PhaseOrder ==
    \A c \in Conns : \A n \in 1..handler[c].n :
        /\ \E full \in {<<"thinking", "generating", "response">>,
                         <<"thinking", "generating", "error">>,
                         <<"thinking", "error">>, <<"error">>} :
             /\ Len(LabelsOf(c, n)) <= Len(full)
             /\ \A i \in 1..Len(LabelsOf(c, n)) : LabelsOf(c, n)[i] = full[i]
        /\ RequestCompleted(c, n) =>
             /\ Replied(c, n) => LabelsOf(c, n)[2] = "generating"
             /\ ~Replied(c, n) => LabelsOf(c, n) = <<"thinking", "error">>

\* One request went through all three phases and the next one failed in
\* the responder: thinking, then the error frame.
C13_Witness ==
    \E c \in Conns :
        /\ LabelsOf(c, 1) = <<"thinking", "generating", "response">>
        /\ LabelsOf(c, 2) = <<"thinking", "error">>
        /\ ~Replied(c, 2)

\* A TEXT message that is not a request: it does not parse, or it has no
\* prompt, an empty one or one that is not a string.
Malformed(msg) ==
    /\ msg.type = "TEXT"
    /\ \/ ~msg.data.parses
       \/ ~msg.data.object
       \/ "prompt" \notin msg.data.keys
       \/ msg.data.prompt \in {NULL, Some("")}
       \/ ~IsStr(msg.data.prompt)

\* C14: a malformed message takes the handler to one send of an error
\* frame, never to the thinking or generating frame; that send delivers
\* exactly the error frame if the connection is open, starts no collaborator
\* call, leaves the connection as it is and takes the handler back to
\* waiting for the next message.
C14_MalformedGetsOneError ==
    [][\A c \in Conns :
        /\ (/\ handler[c].pc = "receive"
            /\ handler'[c].n = handler[c].n + 1
            /\ Malformed(handler'[c].msg)) =>
               /\ handler'[c].pc \in {"except_json", "no_prompt", "except"}
               /\ delivered' = delivered /\ calls' = calls /\ pool' = pool
        /\ (/\ Malformed(handler[c].msg)
            /\ handler[c].pc \in {"except_json", "no_prompt", "except"}
            /\ handler'[c] # handler[c]) =>
               /\ handler'[c].pc = "receive"
               /\ handler'[c].n = handler[c].n
               /\ ws' = ws /\ calls' = calls /\ pool' = pool
               /\ FramesOf(c, handler[c].n) = <<>>
               /\ \E m \in {"Invalid JSON", "No prompt provided",
                              "AttributeError", "TypeError"} :
                    delivered'[c] =
                        IF ws[c] = "open"
                        THEN Append(delivered[c], ErrorFrame(handler[c].n, m))
                        ELSE delivered[c]]_vars

\* An empty prompt got its error frame and nothing else, and the next
\* message on the same connection, a valid prompt, got its response.
C14_Witness ==
    \E c \in Conns :
        /\ LabelsOf(c, 1) = <<"error">>
        /\ FramesOf(c, 1)[1].message = "No prompt provided"
        /\ LabelsOf(c, 2) = <<"thinking", "generating", "response">>
        /\ ws[c] = "open"

\* The positions of the handler at an await safe_send(...).
SendPcs == {"no_prompt", "thinking", "empty_reply", "generating", "response",
            "except_json", "except"}

\* C15: safe_send on a connection that is not open returns False, delivers
\* nothing and raises nothing: whichever frame of a request it was (status,
\* response or error), the handler is back at waiting for the next message,
\* no collaborator call was started, and the handler never ends through
\* its handler of unexpected exceptions.
C15_ClosedSendIsNoOp ==
    [][\A c \in Conns :
        /\ (/\ handler[c].pc \in SendPcs
            /\ handler'[c] # handler[c]
            /\ ws[c] # "open") =>
               /\ SafeSend(ws[c]) = "failed"
               /\ delivered' = delivered
               /\ handler'[c].pc = "receive"
               /\ pool' = pool /\ calls' = calls /\ written' = written
        /\ ~handler'[c].unexpected]_vars

\* The connection went away while the responder was at work: thinking was
\* delivered, the responder returned, the send of the next frame failed and
\* the handler is waiting again.
C15_Witness ==
    \E c \in Conns :
        /\ ws[c] # "open"
        /\ handler[c].pc = "receive"
        /\ handler[c].n = 1
        /\ LabelsOf(c, 1) = <<"thinking">>
        /\ Len(calls[c]) = 1
        /\ calls[c][1].done

\* The prompt of the request at hand passed the handler's checks.
ValidPrompt(c) == IsStr(handler[c].prompt) /\ Truthy(handler[c].prompt)

\* The last call c handed to the executor.
LastCall(c) == calls[c][Len(calls[c])]

\* C16: when the responder, the synthesizer, the audio write or the duration
\* read raises for a request with a valid prompt, the handler's next step
\* sends one error frame carrying the failure (delivered when the
\* connection is open), the request gets no response frame, the handler
\* waits for the next message and the connection is left as it was.
C16_FailedStepGetsErrorFrame ==
    [][\A c \in Conns :
        /\ (/\ handler[c].pc = "respond"
            /\ handler'[c].pc # "respond"
            /\ pool'[c] = "idle"
            /\ Val(LastCall(c)'.result).raised) =>
               /\ handler'[c].pc = "except"
               /\ handler'[c].message = Val(LastCall(c)'.result).error
        /\ (/\ handler[c].pc \in {"respond", "synthesize", "write"}
            /\ handler'[c].pc = "except") =>
               /\ ws' = ws
               /\ delivered' = delivered
               /\ ValidPrompt(c)'
        /\ (/\ handler[c].pc = "except"
            /\ ValidPrompt(c)
            /\ handler'[c] # handler[c]) =>
               /\ handler'[c].pc = "receive"
               /\ ~handler'[c].unexpected
               /\ ws' = ws
               /\ delivered'[c] =
                    IF ws[c] = "open"
                    THEN Append(delivered[c],
                                ErrorFrame(handler[c].n, handler[c].message))
                    ELSE delivered[c]
               /\ "response" \notin {LabelsOf(c, handler[c].n)'[i] :
                                        i \in DOMAIN LabelsOf(c, handler[c].n)'}
        /\ (/\ handler[c].pc = "receive"
            /\ handler[c].n > 0
            /\ ws[c] = "open"
            /\ inbox[c] # <<>>) => ENABLED Receive(c)]_vars

\* The first request of a connection failed in the synthesizer or at the
\* audio file and got its error frame; the second request of the same
\* connection was served with a response frame.
C16_Witness ==
    \E c \in Conns :
        /\ ws[c] = "open"
        /\ LabelsOf(c, 1) = <<"thinking", "generating", "error">>
        /\ LabelsOf(c, 2) = <<"thinking", "generating", "response">>

\* The output of the responder holds both fields the function reads.
Parseable(out) ==
    /\ out.stdout.parses
    /\ out.stdout.object
    /\ {"result", "session_id"} \subseteq out.stdout.keys

\* The calls of get_ai_response_with_session whose subprocess ran and whose
\* handler took the outcome.
RespondedCalls(c) ==
    {k \in DOMAIN calls[c] :
        /\ calls[c][k].call = "get_ai_response_with_session"
        /\ calls[c][k].done
        /\ calls[c][k].out # NULL
        /\ Val(calls[c][k].out).started}

\* C17: get_ai_response_with_session returns (result, session_id) for an
\* output that holds both; for any other output (not JSON, or JSON without
\* one of the fields) it raises nothing and returns the stripped output, or
\* "Error: " and stderr if that is empty, with None as the token.
C17_ResponderFallback ==
    \A c \in Conns : \A k \in RespondedCalls(c) :
        LET out == Val(calls[c][k].out)
            r == Val(calls[c][k].result)
        IN IF Parseable(out)
           THEN r = Returned(out.stdout.result, out.stdout.session_id)
           ELSE /\ ~r.raised
                /\ r.text = IF Strip(out.stdout.raw) # ""
                            THEN Some(Strip(out.stdout.raw))
                            ELSE Some("Error: " \o out.stderr)
                /\ r.new_session_id = NULL

\* The calls of get_ai_response_with_session of connection c.
ResponderCalls(c) ==
    {k \in DOMAIN calls[c] : calls[c][k].call = "get_ai_response_with_session"}

\* j is the responder call of c that follows the responder call i.
NextExchange(c, i, j) ==
    /\ i \in ResponderCalls(c) /\ j \in ResponderCalls(c)
    /\ i < j
    /\ \A k \in ResponderCalls(c) : ~(i < k /\ k < j)

\* C18 as stated: the responder call of a prompt gets the token the
\* responder returned for the previous exchange of the connection.
C18_PreviousTokenPassed ==
    \A c \in Conns : \A i, j \in DOMAIN calls[c] :
        (/\ NextExchange(c, i, j)
         /\ calls[c][i].done
         /\ calls[c][i].result # NULL
         /\ ~Val(calls[c][i].result).raised) =>
            calls[c][j].session_id = Val(calls[c][i].result).new_session_id

\* C18: the handler relays the token and keeps none.  The responder call of
\* a prompt gets the session_id of that prompt's own message (--resume
\* when it is not empty), and a response frame carries the token the
\* responder returned in that exchange; the previous token reaches the
\* responder when the client sends it back.
C18_TokenRelay ==
    [][\A c \in Conns :
        /\ (/\ Len(calls'[c]) = Len(calls[c]) + 1
            /\ LastCall(c)'.call = "get_ai_response_with_session") =>
               /\ LastCall(c)'.req = handler[c].n
               /\ LastCall(c)'.prompt = handler[c].msg.data.prompt
               /\ LastCall(c)'.session_id =
                    Get(handler[c].msg.data, "session_id", NULL)
               /\ LastCall(c)'.resume =
                    IF Get(handler[c].msg.data, "session_id", NULL) \in {NULL, Some("")}
                    THEN NULL
                    ELSE handler[c].msg.data.session_id
        /\ (/\ Len(delivered'[c]) = Len(delivered[c]) + 1
            /\ delivered'[c][Len(delivered'[c])].type = "response") =>
               \E k \in ResponderCalls(c) :
                   /\ calls[c][k].req = handler[c].n
                   /\ calls[c][k].done
                   /\ delivered'[c][Len(delivered'[c])].session_id =
                        Val(calls[c][k].result).new_session_id
                   /\ delivered'[c][Len(delivered'[c])].text =
                        Val(calls[c][k].result).text]_vars

\* The first exchange returned the token s1 in its response frame, and the
\* second message, which carried s1, has made the responder resume s1.
C18_Witness ==
    \E c \in Conns :
        /\ \E f \in {delivered[c][i] : i \in DOMAIN delivered[c]} :
              f.req = 1 /\ f.type = "response" /\ f.session_id = Some("s1")
        /\ \E k \in ResponderCalls(c) :
              calls[c][k].req = 2 /\ calls[c][k].resume = Some("s1")

\* C19: when the client goes away while a call is on the executor, the
\* call stays there and the handler keeps waiting for it; a call leaves the
\* executor only completed; from the drop on nothing is delivered on the
\* connection; the send that follows the call fails quietly, starts no
\* further call and takes the handler back to waiting; and the handler
\* never ends through its handler of unexpected exceptions.
C19_DropDoesNotCancel ==
    [][\A c \in Conns :
        /\ (ws[c] = "open" /\ ws'[c] # "open" /\ pool[c] # "idle"
               /\ handler[c].pc # "done" /\ handler'[c].pc # "done") =>
               /\ pool'[c] = pool[c]
               /\ calls'[c] = calls[c]
               /\ handler'[c] = handler[c]
        /\ (pool[c] # "idle" /\ pool'[c] = "idle") =>
               /\ ~LastCall(c).done
               /\ LastCall(c)'.done
               /\ Len(calls'[c]) = Len(calls[c])
        /\ ws[c] # "open" =>
               /\ ws'[c] = ws[c]
               /\ delivered'[c] = delivered[c]
               /\ Len(calls'[c]) = Len(calls[c])
               /\ (handler[c].pc \in SendPcs /\ handler'[c] # handler[c]) =>
                      handler'[c].pc = "receive"
        /\ ~handler'[c].unexpected]_vars

\* The client went away after the generating frame: generate_tts was not
\* cancelled, the handler took its result and wrote the audio file, the
\* response frame was not delivered and the handler is waiting again.
C19_Witness ==
    \E c \in Conns :
        /\ ws[c] # "open"
        /\ handler[c].pc = "receive"
        /\ LabelsOf(c, 1) = <<"thinking", "generating">>
        /\ Len(calls[c]) = 2
        /\ calls[c][2].call = "generate_tts"
        /\ calls[c][2].done
        /\ calls[c][2].result # NULL
        /\ <<c, 1>> \in written

\* C20: a handler serves one request at a time.  It takes a message from
\* its connection only when it is waiting with nothing on the executor;
\* every frame it delivers belongs to the message it took last; at most one
\* of its calls is in flight, the last one, made for that message; so the
\* frames of a connection come grouped by request, in the order of the
\* messages.
C20_OneRequestAtATime ==
    [][\A c \in Conns :
        /\ handler'[c].n # handler[c].n =>
               /\ handler[c].pc = "receive"
               /\ pool[c] = "idle"
               /\ handler'[c].n = handler[c].n + 1
               /\ inbox[c] # <<>>
               /\ inbox'[c] = Tail(inbox[c])
        /\ delivered'[c] # delivered[c] =>
               /\ Len(delivered'[c]) = Len(delivered[c]) + 1
               /\ delivered'[c][Len(delivered'[c])].req = handler[c].n
               /\ handler'[c].n = handler[c].n
        /\ \A k \in DOMAIN calls[c] :
               /\ ~calls[c][k].done => (k = Len(calls[c]) /\ pool[c] # "idle")
               /\ (~calls[c][k].done /\ handler[c].pc # "done") =>
                      calls[c][k].req = handler[c].n
        /\ \A i, j \in DOMAIN delivered[c] :
               i < j => delivered[c][i].req <= delivered[c][j].req]_vars

\* A second prompt has arrived while generate_tts is at work for the
\* first: it waits in the connection, the handler is still at the first.
C20_Witness ==
    \E c \in Conns :
        /\ handler[c].pc = "synthesize"
        /\ pool[c] = "generate_tts"
        /\ handler[c].n = 1
        /\ LabelsOf(c, 1) = <<"thinking", "generating">>
        /\ inbox[c] # <<>>
        /\ ~Malformed(Head(inbox[c]))
        /\ Head(inbox[c]).type = "TEXT"

\* The handler of c has a step to take: it is not waiting for a message
\* that has not come, and it has not returned.
Runnable(c) ==
    /\ handler[c].pc # "done"
    /\ handler[c].pc = "receive" => (ws[c] # "closed" /\ inbox[c] # <<>>)

\* C21: while a collaborator call of one connection is on the executor, for
\* however long, the handler of every other connection that has a step to
\* take can take it on the event loop (receive its prompt, send its frames,
\* resume after its own calls), and no step of one handler changes what
\* belongs to another connection.
C21_OthersProgress ==
    [][\A c, d \in Conns :
        (c # d /\ pool[c] # "idle") =>
            /\ Runnable(d) => ENABLED (Scheduled(d) /\ HandlerStep(d))
            /\ handler'[d] # handler[d] =>
                  /\ pool'[c] = pool[c]
                  /\ handler'[c] = handler[c]
                  /\ delivered'[c] = delivered[c]]_vars

\* The responder call of one connection is still on the executor, with only
\* its thinking frame out, while the request of another connection has got
\* all three of its frames.
C21_Witness ==
    \E c, d \in Conns :
        /\ c # d
        /\ pool[c] = "get_ai_response_with_session"
        /\ LabelsOf(c, 1) = <<"thinking">>
        /\ LabelsOf(d, 1) = <<"thinking", "generating", "response">>

\* C22: in the committed table a row has an audio_path or a duration_ms
\* only in status success and an error_message only in status error, with
\* store calls that may fail at any point of mark_success and mark_error.
C22_ResultFieldsMatchStatus ==
    \A i \in DOMAIN jobs :
        /\ (jobs[i].audio_path # NULL \/ jobs[i].duration_ms # NULL) =>
               jobs[i].status = "success"
        /\ jobs[i].error_message # NULL => jobs[i].status = "error"

\* mark_success failed on the store after the audio file was written, and
\* mark_error recorded the store's message: the row is in error and has no
\* audio_path.
C22_Witness ==
    \E i \in DOMAIN jobs :
        /\ jobs[i].status = "error"
        /\ jobs[i].error_message = Some(Truncate(StoreErrorMessage))
        /\ jobs[i].audio_path = NULL
        /\ OutputFile(i) \in files

\* C23: created_at of a row never changes; started_at is written once, by
\* the commit of the claim that takes the row from pending to processing;
\* completed_at is written once, by the commit that takes the row from
\* processing to success or error, and every such commit writes it; and
\* created_at <= started_at <= completed_at, a row having completed_at only
\* if it has started_at.
C23_TimestampsOnceAndMonotonic ==
    [][\A i \in DOMAIN jobs :
        /\ i \in DOMAIN jobs'
        /\ jobs'[i].created_at = jobs[i].created_at
        /\ jobs'[i].started_at # jobs[i].started_at =>
               /\ jobs[i].started_at = NULL
               /\ jobs[i].status = "pending" /\ jobs'[i].status = "processing"
               /\ \E w \in Workers : pc[w] = "claim_commit" /\ pc'[w] = "generate_tts"
        /\ (jobs[i].status = "pending" /\ jobs'[i].status # "pending") =>
               jobs'[i].started_at # NULL
        /\ jobs'[i].completed_at # jobs[i].completed_at =>
               /\ jobs[i].completed_at = NULL
               /\ jobs[i].status = "processing"
               /\ jobs'[i].status \in {"success", "error"}
        /\ (jobs[i].status = "processing" /\ jobs'[i].status # "processing") =>
               jobs'[i].completed_at # NULL
        /\ jobs[i].started_at # NULL =>
               jobs[i].created_at <= Val(jobs[i].started_at)
        /\ jobs[i].completed_at # NULL =>
               /\ jobs[i].started_at # NULL
               /\ Val(jobs[i].started_at) <= Val(jobs[i].completed_at)]_vars

\* A row created and claimed at second 0 and completed at second 1.
C23_Witness ==
    \E i \in DOMAIN jobs :
        /\ jobs[i].created_at = 0
        /\ jobs[i].started_at = Some(0)
        /\ jobs[i].completed_at = Some(1)
        /\ jobs[i].status \in {"success", "error"}

\* The positions of main at which the worker is in time.sleep.
SleepPcs == {"idle_sleep", "backoff"}

\* C24: a worker comes to time.sleep(POLL_INTERVAL) in two ways only: its
\* claim returned None (no pending row, or a lost race), or a call on the
\* store raised into the outer except clause; a claim that returns None
\* always leads there.  After mark_success or mark_error committed, the
\* worker closes its connection and starts the next iteration with no
\* sleep between.
C24_SleepOnlyWhenIdleOrFailed ==
    [][\A w \in Workers :
        /\ (pc'[w] = "idle_sleep" /\ pc[w] # "idle_sleep") =>
               /\ pc[w] \in {"select", "update"}
               /\ entry'[w] = NULL
               /\ row'[w] = NULL
        /\ (pc'[w] = "backoff" /\ pc[w] # "backoff") =>
               /\ StoreFault(w) \/ LockTimeout(w)
               /\ RaiseTarget(pc[w]) = "backoff"
        /\ (pc[w] = "idle_sleep" /\ pc'[w] \notin {"idle_sleep", "stopped"}) =>
               pc'[w] = "close"
        /\ (pc[w] = "backoff" /\ pc'[w] \notin {"backoff", "stopped"}) =>
               pc'[w] = "connect"
        /\ (pc[w] \in {"success_commit", "error_commit"} /\ jobs' # jobs) =>
               pc'[w] = "close"
        /\ (pc[w] = "close" /\ pc'[w] \notin {"close", "stopped"}) =>
               pc'[w] = "connect"
        /\ (pc[w] = "connect" /\ pc'[w] \notin {"connect", "stopped", "backoff"}) =>
               pc'[w] = "select"]_vars

\* A worker that has recorded the outcome of its job is at the start of its
\* next iteration, the job's entry still in hand: it has not slept since.
C24_Witness ==
    \E w \in Workers :
        /\ pc[w] = "connect"
        /\ entry[w] # NULL
        /\ jobs[Val(entry[w]).id].status \in {"success", "error"}

\* The workers that have job i in hand: between the return of their claim
\* and the commit of mark_success or mark_error.
Holders(i) ==
    {w \in Workers :
        /\ entry[w] # NULL
        /\ Val(entry[w]).id = i
        /\ pc[w] \in ProcessPcs \cup {"mark_success", "success_commit",
                                      "mark_error", "error_commit"}}

\* Job i is in processing and no worker has it in hand: its worker stopped,
\* or a failure of the store took it out of the iteration.
Orphaned(i) ==
    /\ i \in DOMAIN jobs
    /\ jobs[i].status = "processing"
    /\ Holders(i) = {}

\* C25: a job in processing that no worker has in hand stays so for good:
\* its row does not change, no SELECT of a claim finds it, no claim returns
\* it again and no worker takes it up.
C25_ProcessingNeverRequeued ==
    [][\A i \in Ids :
        Orphaned(i) =>
            /\ Orphaned(i)'
            /\ jobs'[i] = jobs[i]
            /\ claimReturns'[i] = claimReturns[i]
            /\ \A w \in Workers :
                  (pc[w] = "select" /\ row'[w] # NULL) => Val(row'[w]).id # i]_vars

\* The worker that claimed a job has stopped before recording an outcome,
\* and another worker polls an empty queue next to the job in processing.
C25_Witness ==
    \E i \in Ids, w, v \in Workers :
        /\ Orphaned(i)
        /\ pc[w] = "stopped"
        /\ claimReturns[i] = 1
        /\ pc[v] = "idle_sleep"
        /\ Pending(jobs) = {}

\* C26: the audio file of a job is written before its row is set to
\* success: every row in success has its file, a worker comes to
\* mark_success only with the file of its entry written, and no step both
\* writes a file and changes the table.
C26_FileBeforeSuccess ==
    [][/\ \A i \in DOMAIN jobs :
            jobs[i].status = "success" => OutputFile(i) \in files
       /\ \A w \in Workers :
            pc[w] \in {"mark_success", "success_commit"} =>
                OutputFile(Val(entry[w]).id) \in files
       /\ files' # files => jobs' = jobs
       /\ files \subseteq files']_vars

\* The worker stopped between write_wav and the commit of mark_success:
\* the file is there and the row is in processing.
C26_Witness ==
    \E i \in Ids, w \in Workers :
        /\ Orphaned(i)
        /\ OutputFile(i) \in files
        /\ pc[w] = "stopped"
        /\ jobs[i].error_message = NULL
        /\ \A k \in DOMAIN jobs : jobs[k].status # "success"

\* C27: the path recorded for a job and the file written for it are made
\* from its id alone; distinct jobs have distinct paths and distinct files;
\* the audio_path of a row in success is the path of its id, and from the
\* public folder it names the file that was written for the job.
C27_PathFromIdAlone ==
    /\ \A i, k \in Ids :
          i # k => (AudioPath(i) # AudioPath(k) /\ OutputFile(i) # OutputFile(k))
    /\ \A i \in DOMAIN jobs :
          jobs[i].status = "success" =>
              /\ jobs[i].audio_path = Some(AudioPath(i))
              /\ FromPublic(Val(jobs[i].audio_path)) = OutputFile(i)
              /\ OutputFile(i) \in files
    /\ \A w \in Workers :
          result[w] # NULL =>
              Val(result[w]).audio_path = AudioPath(Val(entry[w]).id)
    /\ files \subseteq {OutputFile(i) : i \in DOMAIN jobs}

\* Two jobs are in success, each with the path of its own id and its own
\* file.
C27_Witness ==
    /\ Len(jobs) = 2
    /\ \A i \in DOMAIN jobs : jobs[i].status = "success"
    /\ jobs[1].audio_path # jobs[2].audio_path
    /\ Cardinality(files) = 2

\* C28: generate_tts runs at most once for a job id over the whole run of
\* all workers, and only for a job a claim returned; it is run by a worker
\* that has the job's entry from its own claim, on a row in processing;
\* for a job in success or error, or in processing with no worker that has
\* it in hand, it never runs again.
C28_SynthesizedAtMostOnce ==
    [][\A i \in Ids :
        /\ synthCalls[i] <= 1
        /\ synthCalls[i] <= claimReturns[i]
        /\ synthCalls'[i] # synthCalls[i] =>
               /\ synthCalls[i] = 0
               /\ jobs[i].status = "processing"
               /\ \E w \in Workers :
                     /\ pc[w] = "generate_tts"
                     /\ entry[w] = Some([id |-> i, text |-> jobs[i].text])
                     /\ pc'[w] \in {"write_wav", "mark_error"}
                     /\ Holders(i) = {w}
        /\ (i \in DOMAIN jobs /\ (jobs[i].status \in {"success", "error"} \/ Orphaned(i))) =>
               synthCalls'[i] = synthCalls[i]]_vars

\* A job failed after its one synthesis, and the workers poll on: one of
\* them sleeps on the empty queue, the failed job is not taken up.
C28_Witness ==
    \E i \in DOMAIN jobs, w \in Workers :
        /\ jobs[i].status = "error"
        /\ synthCalls[i] = 1
        /\ pc[w] = "idle_sleep"
        /\ entry[w] = NULL
        /\ Pending(jobs) = {}

\* C29: a worker whose claim UPDATE matched no row goes to the sleep of
\* main with no row and no entry, whatever else is pending; the sleep lasts
\* the poll interval (the writers waiting behind it wait as long); and a
\* SELECT of a claim is only run at the start of an iteration, after the
\* connection was opened.
C29_LostRaceSleeps ==
    [][\A w \in Workers :
        /\ (/\ pc[w] = "update"
            /\ writer' = w
            /\ ClaimMatches(jobs, Val(row[w]).id) = {}) =>
               /\ pc'[w] = "idle_sleep"
               /\ row'[w] = NULL
               /\ entry'[w] = NULL
        /\ (pc[w] = "idle_sleep" /\ pc'[w] \notin {"idle_sleep", "stopped"}) =>
               /\ pc'[w] = "close"
               /\ waited' = SleptHolding(w)
               /\ row'[w] = NULL
        /\ (pc'[w] = "select" /\ pc[w] # "select") => pc[w] = "connect"
        /\ (pc'[w] = "update" /\ pc[w] # "update") => pc[w] = "select"]_vars

\* A worker has lost the race for the first row and is in its sleep, its
\* zero-row transaction open, while a second row is pending.
C29_Witness ==
    \E w \in Workers :
        /\ pc[w] = "idle_sleep"
        /\ writer = w
        /\ uncommitted = jobs
        /\ Pending(jobs) # {}

\* C30: when claim_pending_entry has returned, with an entry or with None,
\* the worker's connection holds no open write transaction; in particular
\* no worker is in time.sleep with the write lock of the store.
C30_ClaimEndsItsTransaction ==
    \A w \in Workers :
        pc[w] \in SleepPcs \cup ProcessPcs => writer # w

\* C31: a worker comes to call mark_error exactly when process_entry raised
\* or a call of mark_success failed on the store, and every such failure
\* takes it there, with str(e) as the message; the commit of mark_error
\* then records the job as error with that message, cut to the cap.  After
\* a failed mark_success the message is the store's and the audio file is
\* on disk.
C31_MarkErrorExactlyOnFailure ==
    [][\A w \in Workers :
        /\ (pc'[w] = "mark_error" /\ pc[w] # "mark_error") =>
               /\ \/ ProcessFail(w)
                  \/ /\ pc[w] \in {"mark_success", "success_commit"}
                     /\ StoreFault(w) \/ LockTimeout(w)
                     /\ exc'[w] = Some(StoreErrorMessage)
                     /\ OutputFile(Val(entry[w]).id) \in files
               /\ exc'[w] # NULL
               /\ entry'[w] = entry[w]
               /\ jobs' = jobs
        /\ (/\ pc[w] \in ProcessPcs \cup {"mark_success", "success_commit"}
            /\ (ProcessFail(w) \/ StoreFault(w) \/ LockTimeout(w))) =>
               pc'[w] = "mark_error"
        /\ (pc[w] = "error_commit" /\ pc'[w] = "close") =>
               /\ jobs'[Val(entry[w]).id].status = "error"
               /\ jobs'[Val(entry[w]).id].error_message = Some(Truncate(Val(exc[w])))
               /\ jobs'[Val(entry[w]).id].audio_path = NULL]_vars

\* process_entry returned for a job, mark_success failed on the store, and
\* the worker has recorded the job as error with the store's message; the
\* audio file of the job is on disk.
C31_Witness ==
    \E w \in Workers :
        /\ pc[w] = "close"
        /\ entry[w] # NULL
        /\ result[w] # NULL
        /\ jobs[Val(entry[w]).id].status = "error"
        /\ jobs[Val(entry[w]).id].error_message = Some(StoreErrorMessage)
        /\ OutputFile(Val(entry[w]).id) \in files

InProcessing == {i \in DOMAIN jobs : jobs[i].status = "processing"}

Running == {w \in Workers : pc[w] # "stopped"}

\* C32: when no call on the store fails and no worker is interrupted, every
\* job in processing is in the hands of exactly one worker, which is between
\* its claim and the commit of mark_success or mark_error for that job, so
\* the jobs in processing are never more than the running workers.
C32_OneJobPerWorker ==
    /\ \A i \in InProcessing : Cardinality(Holders(i)) = 1
    /\ Cardinality(InProcessing) <= Cardinality(Running)

\* Every worker has a job in processing and a further job waits as pending:
\* the bound is reached with work left over.
C32_Witness ==
    /\ Cardinality(InProcessing) = Cardinality(Workers)
    /\ \A w \in Workers : entry[w] # NULL /\ Val(entry[w]).id \in InProcessing
    /\ \E j \in DOMAIN jobs : jobs[j].status = "pending"

\* The k-th message of connection c is a text message that has arrived: it
\* waits in the socket or the handler has taken it.
TextArrived(c, k) ==
    \/ /\ handler[c].n = k
       /\ handler[c].msg.type = "TEXT"
    \/ /\ handler[c].n < k
       /\ k - handler[c].n <= Len(inbox[c])
       /\ inbox[c][k - handler[c].n].type = "TEXT"

\* The terminal frames delivered for the k-th message of c.
TerminalFrames(c, k) ==
    {j \in DOMAIN delivered[c] :
        delivered[c][j].req = k /\ delivered[c][j].type \in Terminal}

\* C33: on a connection that stays open, with collaborator calls that all
\* return or raise, every text message that arrives leads to a state where
\* exactly one terminal frame (response or error) has been delivered for
\* it; no message ever has two terminal frames, and no error frame comes
\* after the response frame of the same message.
C33_OneTerminalFrame ==
    /\ \A c \in 1..NumConns : \A k \in 1..MaxMsgs :
          TextArrived(c, k) ~> (Cardinality(TerminalFrames(c, k)) = 1)
    /\ [](\A c \in Conns : \A k \in 1..MaxMsgs :
            /\ Cardinality(TerminalFrames(c, k)) <= 1
            /\ \A i, j \in DOMAIN delivered[c] :
                  (/\ i < j
                   /\ delivered[c][i].req = delivered[c][j].req
                   /\ delivered[c][i].type = "response") =>
                       delivered[c][j].type # "error")

\* Two text messages on an open connection, both answered: one has its
\* response frame, the other its error frame, and the handler waits for the
\* next message.
C33_Witness ==
    \E c \in Conns :
        /\ ws[c] = "open"
        /\ handler[c].pc = "receive"
        /\ handler[c].n = 2
        /\ \E a, b \in 1..2 :
              /\ a # b
              /\ TerminalFrames(c, a) # {} /\ TerminalFrames(c, b) # {}
              /\ \A j \in TerminalFrames(c, a) : delivered[c][j].type = "response"
              /\ \A j \in TerminalFrames(c, b) : delivered[c][j].type = "error"

\* The status frame of the given phase went out for the n-th message of c.
StatusDelivered(c, n, phase) ==
    \E j \in DOMAIN delivered[c] :
        /\ delivered[c][j].req = n
        /\ delivered[c][j].type = "status"
        /\ delivered[c][j].phase = phase

\* C34: a status frame that could not be sent ends the request there: the
\* step that failed to send thinking or generating starts no call, writes
\* no file and leaves the handler waiting for the next message; over the
\* whole run the responder is only ever called for a request whose thinking
\* frame went out, the synthesizer is only called and an audio file only
\* written for a request whose generating frame went out, and the handler
\* is at a later step of a request (a call, the write, a terminal send)
\* only when the status frame before that step went out.
C34_FailedStatusAbandons ==
    /\ [][\A c \in Conns :
            (/\ handler[c].pc \in {"thinking", "generating"}
             /\ handler'[c] # handler[c]
             /\ SafeSend(ws[c]) # "sent") =>
                /\ handler'[c].pc = "receive"
                /\ handler'[c].n = handler[c].n
                /\ calls'[c] = calls[c] /\ pool'[c] = pool[c]
                /\ written' = written
                /\ delivered'[c] = delivered[c]]_vars
    /\ [](\A c \in Conns :
            /\ \A k \in DOMAIN calls[c] :
                  StatusDelivered(c, calls[c][k].req,
                                  IF calls[c][k].call = "generate_tts"
                                  THEN "generating" ELSE "thinking")
            /\ \A n \in 1..MaxMsgs :
                  <<c, n>> \in written => StatusDelivered(c, n, "generating")
            /\ handler[c].pc \in {"respond", "empty_reply", "generating"} =>
                  StatusDelivered(c, handler[c].n, "thinking")
            /\ (handler[c].pc = "except" /\ ValidPrompt(c)) =>
                  StatusDelivered(c, handler[c].n, "thinking")
            /\ handler[c].pc \in {"synthesize", "write", "response"} =>
                  StatusDelivered(c, handler[c].n, "generating"))

\* The client went away while the responder worked on its first prompt: the
\* generating frame failed and no synthesizer call followed; then the
\* thinking frame of its second prompt failed and no responder call
\* followed.  Neither request got a terminal frame.
C34_Witness ==
    \E c \in Conns :
        /\ ws[c] # "open"
        /\ handler[c].pc = "receive"
        /\ handler[c].n = 2
        /\ ValidPrompt(c)
        /\ LabelsOf(c, 1) = <<"thinking">>
        /\ LabelsOf(c, 2) = <<>>
        /\ Replied(c, 1)
        /\ Truthy(Val(calls[c][1].result).text)
        /\ Len(calls[c]) = 1
        /\ written = {}

\* The responder returned the empty string as its reply to the n-th message
\* of c.
EmptyReply(c, n) ==
    \E k \in DOMAIN calls[c] :
        /\ calls[c][k].call = "get_ai_response_with_session"
        /\ calls[c][k].req = n
        /\ calls[c][k].done
        /\ calls[c][k].result # NULL
        /\ ~Val(calls[c][k].result).raised
        /\ Val(calls[c][k].result).text = Some("")

\* C35: when the responder returns the empty string, the next step of the
\* handler sends the error frame 'Failed to get AI response' (delivered on
\* an open connection), leaves the connection as it is and goes back to
\* waiting; the frames of that request are thinking and then that error
\* frame, never a generating frame, no generate_tts call is made and no
\* audio file written for it, and the handler takes the next message of an
\* open connection.
C35_EmptyReplyGetsError ==
    /\ [][\A c \in Conns :
            (handler[c].pc = "empty_reply" /\ handler'[c] # handler[c]) =>
                /\ EmptyReply(c, handler[c].n)
                /\ ws'[c] = ws[c]
                /\ handler'[c].pc = "receive"
                /\ delivered'[c] =
                      IF ws[c] = "open"
                      THEN Append(delivered[c],
                                  ErrorFrame(handler[c].n, "Failed to get AI response"))
                      ELSE delivered[c]]_vars
    /\ [](\A c \in Conns : \A n \in 1..MaxMsgs :
            EmptyReply(c, n) =>
                /\ LabelsOf(c, n) \in {<<"thinking">>, <<"thinking", "error">>}
                /\ \A j \in DOMAIN delivered[c] :
                      (delivered[c][j].req = n /\ delivered[c][j].type = "error") =>
                          delivered[c][j].message = "Failed to get AI response"
                /\ \A k \in DOMAIN calls[c] :
                      calls[c][k].req = n => calls[c][k].call # "generate_tts"
                /\ <<c, n>> \notin written
                /\ ~handler[c].unexpected
                /\ handler[c].n = n =>
                      /\ handler[c].pc \in {"empty_reply", "receive", "done"}
                      /\ (/\ handler[c].pc = "receive"
                          /\ ws[c] = "open"
                          /\ inbox[c] # <<>>) => ENABLED Receive(c))

\* The responder returned the empty string for the first prompt: its frames
\* are thinking and the error; the connection is open and the handler is at
\* work on the second prompt, whose thinking frame went out.
C35_Witness ==
    \E c \in Conns :
        /\ ws[c] = "open"
        /\ EmptyReply(c, 1)
        /\ LabelsOf(c, 1) = <<"thinking", "error">>
        /\ FramesOf(c, 1)[2].message = "Failed to get AI response"
        /\ handler[c].n = 2
        /\ LabelsOf(c, 2) = <<"thinking">>

\* The session_id member of a message, as data.get('session_id') gives it.
OwnToken(msg) == Get(msg.data, "session_id", NULL)

\* C36: the responder call of the message at hand was made with that
\* message's own session_id member, and with --resume exactly when the
\* member is there and not empty; what a call was made with never changes
\* afterwards; and when the handler takes a message it holds the
\* session_id of that message and no token of the exchange before.
C36_OwnTokenOnly ==
    /\ [](\A c \in Conns : \A k \in DOMAIN calls[c] :
            (/\ calls[c][k].call = "get_ai_response_with_session"
             /\ calls[c][k].req = handler[c].n) =>
                /\ calls[c][k].session_id = OwnToken(handler[c].msg)
                /\ calls[c][k].resume =
                      IF OwnToken(handler[c].msg) \in {NULL, Some("")}
                      THEN NULL ELSE OwnToken(handler[c].msg))
    /\ [][\A c \in Conns :
            /\ \A k \in DOMAIN calls[c] :
                  /\ calls'[c][k].req = calls[c][k].req
                  /\ calls'[c][k].session_id = calls[c][k].session_id
                  /\ calls'[c][k].resume = calls[c][k].resume
            /\ handler'[c].n # handler[c].n =>
                  /\ handler'[c].n = handler[c].n + 1
                  /\ handler'[c].msg = Head(inbox[c])
                  /\ handler'[c].new_session_id = NULL
                  /\ handler'[c].session_id \in {NULL, OwnToken(handler'[c].msg)}
                  /\ handler'[c].pc = "thinking" =>
                        handler'[c].session_id = OwnToken(handler'[c].msg)]_vars

\* The first exchange ended with a response frame that carries a token; the
\* second message came with an empty session_id, and its responder call was
\* made with that empty member and without --resume.
C36_Witness ==
    \E c \in Conns :
        /\ \E j \in DOMAIN delivered[c] :
              /\ delivered[c][j].req = 1
              /\ delivered[c][j].type = "response"
              /\ Truthy(delivered[c][j].session_id)
        /\ handler[c].n = 2
        /\ OwnToken(handler[c].msg) = Some("")
        /\ \E k \in ResponderCalls(c) :
              /\ calls[c][k].req = 2
              /\ calls[c][k].session_id = Some("")
              /\ calls[c][k].resume = NULL

\* The response frames delivered on c.
ResponseFrames(c) ==
    {j \in DOMAIN delivered[c] : delivered[c][j].type = "response"}

\* The responder call of c made for the request of frame f.
ExchangeOf(c, f) ==
    {k \in ResponderCalls(c) : calls[c][k].req = f.req}

\* C37: every response frame belongs to one responder call, which returned;
\* the frame's session_id is the token that call returned and its text the
\* reply text that call returned.  When the call took the fallback (its
\* output did not parse, or had no result or no session_id member) the
\* frame's session_id is null and its text the stripped output, whatever
\* session_id the message had brought.
C37_ResponseCarriesReturnedToken ==
    \A c \in Conns : \A j \in ResponseFrames(c) :
        /\ Cardinality(ExchangeOf(c, delivered[c][j])) = 1
        /\ \A k \in ExchangeOf(c, delivered[c][j]) :
              /\ calls[c][k].done
              /\ calls[c][k].out # NULL /\ calls[c][k].result # NULL
              /\ ~Val(calls[c][k].result).raised
              /\ Val(calls[c][k].result) = GetAiResponseWithSession(Val(calls[c][k].out))
              /\ delivered[c][j].session_id = Val(calls[c][k].result).new_session_id
              /\ delivered[c][j].text = Val(calls[c][k].result).text
              /\ Parseable(Val(calls[c][k].out)) =>
                    /\ delivered[c][j].session_id = Val(calls[c][k].out).stdout.session_id
                    /\ delivered[c][j].text = Val(calls[c][k].out).stdout.result
              /\ ~Parseable(Val(calls[c][k].out)) =>
                    /\ delivered[c][j].session_id = NULL
                    /\ delivered[c][j].text \in
                          {Some(Strip(Val(calls[c][k].out).stdout.raw)),
                           Some("Error: " \o Val(calls[c][k].out).stderr)}

\* A message brought the token s1, the responder's output was not JSON, and
\* the response frame went out with the raw text and session_id null.
C37_Witness ==
    \E c \in Conns : \E j \in ResponseFrames(c) :
        \E k \in ExchangeOf(c, delivered[c][j]) :
            /\ calls[c][k].session_id = Some("s1")
            /\ calls[c][k].resume = Some("s1")
            /\ ~Val(calls[c][k].out).stdout.parses
            /\ delivered[c][j].session_id = NULL
            /\ delivered[c][j].text = Some("Sarcasm.")

====
